---- MODULE Spec2Model ----
(***************************************************************************)
(* Model of the Neon AI-agent tool operations (Select, Insert, Update,     *)
(* Delete, ExecuteRawSql) and of the shared validators, error classifier   *)
(* and response formatters they are built from.                            *)
(*                                                                         *)
(* Texts (identifiers, WHERE fragments, SQL, messages) are TLA+ strings;   *)
(* the JavaScript string operations the code uses on them are the          *)
(* operators of the first section.                                         *)
(***************************************************************************)
EXTENDS Integers, Sequences, FiniteSets, TLC

-----------------------------------------------------------------------------
(* JavaScript string primitives used by the source                         *)

UpperAlpha == "ABCDEFGHIJKLMNOPQRSTUVWXYZ"

LowerAlpha == "abcdefghijklmnopqrstuvwxyz"

Digits == "0123456789"

CharAt(s, i) == SubSeq(s, i, i)

\* s.substring(i - 1, j): the end is clamped to the length of s
Slice(s, i, j) ==
    IF i > Len(s) \/ j < i THEN "" ELSE SubSeq(s, i, IF j > Len(s) THEN Len(s) ELSE j)

\* String.prototype.includes
Includes(s, sub) ==
    \E i \in 1..(Len(s) - Len(sub) + 1) : SubSeq(s, i, i + Len(sub) - 1) = sub

\* String.prototype.startsWith
StartsWith(s, pre) == Len(pre) <= Len(s) /\ SubSeq(s, 1, Len(pre)) = pre

\* String.prototype.endsWith
EndsWith(s, suf) ==
    Len(suf) <= Len(s) /\ SubSeq(s, Len(s) - Len(suf) + 1, Len(s)) = suf

IsSpace(c) == c \in {" ", "\t", "\n", "\r"}

IndexIn(alphabet, c) ==
    IF \E i \in 1..Len(alphabet) : CharAt(alphabet, i) = c
    THEN CHOOSE i \in 1..Len(alphabet) : CharAt(alphabet, i) = c
    ELSE 0

UpperChar(c) ==
    IF IndexIn(LowerAlpha, c) > 0 THEN CharAt(UpperAlpha, IndexIn(LowerAlpha, c)) ELSE c

LowerChar(c) ==
    IF IndexIn(UpperAlpha, c) > 0 THEN CharAt(LowerAlpha, IndexIn(UpperAlpha, c)) ELSE c

RECURSIVE ToUpperCase(_)
\* String.prototype.toUpperCase
ToUpperCase(s) ==
    IF Len(s) = 0 THEN ""
    ELSE IF Len(s) = 1 THEN UpperChar(s)
    ELSE LET half == Len(s) \div 2
         IN  ToUpperCase(SubSeq(s, 1, half)) \o ToUpperCase(SubSeq(s, half + 1, Len(s)))

RECURSIVE ToLowerCase(_)
\* String.prototype.toLowerCase
ToLowerCase(s) ==
    IF Len(s) = 0 THEN ""
    ELSE IF Len(s) = 1 THEN LowerChar(s)
    ELSE LET half == Len(s) \div 2
         IN  ToLowerCase(SubSeq(s, 1, half)) \o ToLowerCase(SubSeq(s, half + 1, Len(s)))

RECURSIVE TrimStart(_)
TrimStart(s) ==
    IF Len(s) > 0 /\ IsSpace(CharAt(s, 1)) THEN TrimStart(Tail(s)) ELSE s

RECURSIVE TrimEnd(_)
TrimEnd(s) ==
    IF Len(s) > 0 /\ IsSpace(CharAt(s, Len(s)))
    THEN TrimEnd(SubSeq(s, 1, Len(s) - 1))
    ELSE s

\* String.prototype.trim
Trim(s) == TrimEnd(TrimStart(s))

\* the value `undefined` where a text is expected
Undefined == "<undefined>"

\* `!s || s.trim() === ''`
IsBlank(s) == s = Undefined \/ Trim(s) = ""

\* (s.match(/c/g) || []).length
CountChar(s, c) == Cardinality({i \in 1..Len(s) : CharAt(s, i) = c})

\* s.split(/\s+/)[0] for a trimmed, non-empty s
FirstWord(s) ==
    IF \E i \in 1..Len(s) : IsSpace(CharAt(s, i))
    THEN SubSeq(s, 1, (CHOOSE i \in 1..Len(s) :
                          /\ IsSpace(CharAt(s, i))
                          /\ \A j \in 1..(i - 1) : ~IsSpace(CharAt(s, j))) - 1)
    ELSE s

RECURSIVE Split(_, _)
\* s.split(sep) for a one-character separator
Split(s, sep) ==
    IF \E i \in 1..Len(s) : CharAt(s, i) = sep
    THEN LET k == CHOOSE i \in 1..Len(s) :
                      /\ CharAt(s, i) = sep
                      /\ \A j \in 1..(i - 1) : CharAt(s, j) # sep
         IN  <<SubSeq(s, 1, k - 1)>> \o Split(SubSeq(s, k + 1, Len(s)), sep)
    ELSE <<s>>

RECURSIVE Join(_, _)
\* Array.prototype.join
Join(parts, sep) ==
    IF Len(parts) = 0 THEN ""
    ELSE IF Len(parts) = 1 THEN parts[1]
    ELSE parts[1] \o sep \o Join(Tail(parts), sep)

IsLetter(c) == IndexIn(UpperAlpha, c) > 0 \/ IndexIn(LowerAlpha, c) > 0

IsDigit(c) == IndexIn(Digits, c) > 0

\* /^[a-zA-Z_][a-zA-Z0-9_]*$/.test(s)
MatchesIdentifier(s) ==
    /\ Len(s) >= 1
    /\ IsLetter(CharAt(s, 1)) \/ CharAt(s, 1) = "_"
    /\ \A i \in 2..Len(s) :
          IsLetter(CharAt(s, i)) \/ IsDigit(CharAt(s, i)) \/ CharAt(s, i) = "_"

\* `list || fallback` after a join: an empty text is falsy
OrElse(text, fallback) == IF text = "" THEN fallback ELSE text

-----------------------------------------------------------------------------
(* shared/validators: ValidationResult is [valid, errors]; an absent       *)
(* `errors` list is the empty sequence                                     *)

Valid == [valid |-> TRUE, errors |-> <<>>]

Invalid(errors) == [valid |-> FALSE, errors |-> errors]

HasInjectionChars(s) == Includes(s, ";") \/ Includes(s, "--") \/ Includes(s, "/*")

validateTableName(table) ==
    IF IsBlank(table)
    THEN Invalid(<<"Table name is required">>)
    ELSE IF HasInjectionChars(table)
    THEN Invalid(<<"Table name contains invalid characters (possible SQL injection attempt)">>)
    ELSE IF ~MatchesIdentifier(table)
    THEN Invalid(<<"Table name must start with a letter or underscore and contain only letters, numbers, and underscores">>)
    ELSE Valid

\* validateColumnName without the special case of the literal `*`
validateColumnNameNoStar(column) ==
    IF IsBlank(column)
    THEN Invalid(<<"Column name is required">>)
    ELSE IF HasInjectionChars(column)
    THEN Invalid(<<"Column name contains invalid characters (possible SQL injection attempt)">>)
    ELSE IF ~MatchesIdentifier(column)
    THEN Invalid(<<"Column name must start with a letter or underscore and contain only letters, numbers, and underscores">>)
    ELSE Valid

validateColumnName(column) ==
    IF column = "*"
    THEN Valid
    ELSE IF IsBlank(column)
    THEN Invalid(<<"Column name is required">>)
    ELSE IF HasInjectionChars(column)
    THEN Invalid(<<"Column name contains invalid characters (possible SQL injection attempt)">>)
    ELSE IF ~MatchesIdentifier(column)
    THEN Invalid(<<"Column name must start with a letter or underscore and contain only letters, numbers, and underscores">>)
    ELSE Valid

RECURSIVE ConcatAll(_)
\* errors.push(...list) over a sequence of lists
ConcatAll(lists) ==
    IF Len(lists) = 0 THEN <<>> ELSE lists[1] \o ConcatAll(Tail(lists))

validateColumnList(columns) ==
    IF IsBlank(columns) THEN Valid
    ELSE IF Trim(columns) = "*" THEN Valid
    ELSE LET columnArray == Split(columns, ",")
             errors == ConcatAll([i \in 1..Len(columnArray) |->
                                    validateColumnName(Trim(columnArray[i])).errors])
         IN  IF Len(errors) > 0 THEN Invalid(errors) ELSE Valid

\* WhereDangerous without the separator entry
WhereDangerousKeywordsOnly ==
    <<"DROP", "DELETE", "TRUNCATE", "ALTER", "CREATE", "EXEC", "EXECUTE">>

WhereDangerous == <<"DROP", "DELETE", "TRUNCATE", "ALTER", "CREATE", "EXEC", "EXECUTE", "; ">>

\* validateWhereClause looking for the keywords in the text as written
validateWhereClauseCaseSensitive(whereClause) ==
    IF IsBlank(whereClause) THEN Valid
    ELSE LET upperClause == whereClause
             Hit(keyword) == Includes(upperClause, keyword)
             found == SelectSeq(WhereDangerous, Hit)
             keywordErrors == [i \in 1..Len(found) |->
                 "WHERE clause contains potentially dangerous keyword: " \o found[i]]
             commentErrors ==
                 IF Includes(whereClause, "--") \/ Includes(whereClause, "/*")
                 THEN <<"WHERE clause contains SQL comment syntax (possible injection attempt)">>
                 ELSE <<>>
             errors == keywordErrors \o commentErrors
         IN  IF Len(errors) > 0 THEN Invalid(errors) ELSE Valid

validateWhereClause(whereClause) ==
    IF IsBlank(whereClause) THEN Valid
    ELSE LET upperClause == ToUpperCase(whereClause)
             Hit(keyword) == Includes(upperClause, keyword)
             found == SelectSeq(WhereDangerous, Hit)
             keywordErrors == [i \in 1..Len(found) |->
                 "WHERE clause contains potentially dangerous keyword: " \o found[i]]
             commentErrors ==
                 IF Includes(whereClause, "--") \/ Includes(whereClause, "/*")
                 THEN <<"WHERE clause contains SQL comment syntax (possible injection attempt)">>
                 ELSE <<>>
             errors == keywordErrors \o commentErrors
         IN  IF Len(errors) > 0 THEN Invalid(errors) ELSE Valid

\* validateLimit that only turns away a negative limit
validateLimitNonNegative(limit) ==
    IF limit < 0 THEN Invalid(<<"Limit must be at least 1">>) ELSE Valid

\* the limit is always a number here: Select reads it with a fallback
validateLimit(limit) ==
    IF limit < 1 THEN Invalid(<<"Limit must be at least 1">>) ELSE Valid

AllowedFirstWords == <<"SELECT", "INSERT", "UPDATE", "DELETE", "WITH">>

SqlDangerous == <<"DROP TABLE", "DROP DATABASE", "TRUNCATE", "ALTER TABLE",
                  "CREATE TABLE", "CREATE DATABASE", "GRANT", "REVOKE">>

\* validateSqlQuery counting the `;` without looking at where a single one stands
validateSqlQueryCountOnly(query) ==
    IF IsBlank(query) THEN Invalid(<<"SQL query is required">>)
    ELSE LET upperQuery == ToUpperCase(Trim(query))
             firstWord == FirstWord(upperQuery)
             Hit(keyword) == Includes(upperQuery, keyword)
             found == SelectSeq(SqlDangerous, Hit)
             errors == [i \in 1..Len(found) |->
                 "Query contains dangerous operation: " \o found[i]]
             semicolons == CountChar(query, ";")
         IN  IF ~\E i \in 1..Len(AllowedFirstWords) : AllowedFirstWords[i] = firstWord
             THEN Invalid(<<"Query must start with one of: " \o Join(AllowedFirstWords, ", ")>>)
             ELSE IF semicolons > 1
             THEN Invalid(errors \o <<"Multiple SQL statements in one query are not allowed">>)
             ELSE IF Len(errors) > 0 THEN Invalid(errors)
             ELSE Valid

validateSqlQuery(query) ==
    IF IsBlank(query) THEN Invalid(<<"SQL query is required">>)
    ELSE LET upperQuery == ToUpperCase(Trim(query))
             firstWord == FirstWord(upperQuery)
             Hit(keyword) == Includes(upperQuery, keyword)
             found == SelectSeq(SqlDangerous, Hit)
             errors == [i \in 1..Len(found) |->
                 "Query contains dangerous operation: " \o found[i]]
             semicolons == CountChar(query, ";")
         IN  IF ~\E i \in 1..Len(AllowedFirstWords) : AllowedFirstWords[i] = firstWord
             THEN Invalid(<<"Query must start with one of: " \o Join(AllowedFirstWords, ", ")>>)
             ELSE IF semicolons > 1 \/ (semicolons = 1 /\ ~EndsWith(Trim(query), ";"))
             THEN Invalid(errors \o <<"Multiple SQL statements in one query are not allowed">>)
             ELSE IF Len(errors) > 0 THEN Invalid(errors)
             ELSE Valid

-----------------------------------------------------------------------------
(* shared/errors: an error is [message, code]; code "" is an error without *)
(* a driver code, as every locally built `new Error(text)` is              *)

LocalError(message) == [message |-> message, code |-> ""]

\* categorizeError with the code-family test of syntax_error placed ahead of
\* the tests for the specific codes of that family
categorizeErrorFamilyFirst(error) ==
    LET errorMessage == ToLowerCase(error.message)
        errorCodeStr == error.code
    IN  IF errorCodeStr \in {"ECONNREFUSED", "ENOTFOUND", "ETIMEDOUT"}
        THEN "connection_error"
        ELSE IF \/ errorCodeStr = "28P01"
                \/ Includes(errorMessage, "authentication")
                \/ Includes(errorMessage, "password")
        THEN "authentication_error"
        ELSE IF StartsWith(errorCodeStr, "42") \/ Includes(errorMessage, "syntax error")
        THEN "syntax_error"
        ELSE IF \/ errorCodeStr = "42P01"
                \/ Includes(errorMessage, "does not exist") /\ Includes(errorMessage, "relation")
        THEN "invalid_table"
        ELSE IF \/ errorCodeStr = "42703"
                \/ Includes(errorMessage, "does not exist") /\ Includes(errorMessage, "column")
        THEN "invalid_column"
        ELSE IF errorCodeStr = "42501" \/ Includes(errorMessage, "permission denied")
        THEN "permission_denied"
        ELSE IF errorCodeStr = "23505" \/ errorCodeStr = "23503" \/ StartsWith(errorCodeStr, "23")
        THEN "constraint_violation"
        ELSE IF Includes(errorMessage, "timeout") \/ Includes(errorMessage, "timed out")
        THEN "timeout"
        ELSE IF Includes(errorMessage, "invalid") \/ Includes(errorMessage, "validation")
        THEN "validation_error"
        ELSE "unknown_error"

categorizeError(error) ==
    LET errorMessage == ToLowerCase(error.message)
        errorCodeStr == error.code
    IN  IF errorCodeStr \in {"ECONNREFUSED", "ENOTFOUND", "ETIMEDOUT"}
        THEN "connection_error"
        ELSE IF \/ errorCodeStr = "28P01"
                \/ Includes(errorMessage, "authentication")
                \/ Includes(errorMessage, "password")
        THEN "authentication_error"
        ELSE IF \/ errorCodeStr = "42P01"
                \/ Includes(errorMessage, "does not exist") /\ Includes(errorMessage, "relation")
        THEN "invalid_table"
        ELSE IF \/ errorCodeStr = "42703"
                \/ Includes(errorMessage, "does not exist") /\ Includes(errorMessage, "column")
        THEN "invalid_column"
        ELSE IF errorCodeStr = "42501" \/ Includes(errorMessage, "permission denied")
        THEN "permission_denied"
        ELSE IF StartsWith(errorCodeStr, "42") \/ Includes(errorMessage, "syntax error")
        THEN "syntax_error"
        ELSE IF errorCodeStr = "23505" \/ errorCodeStr = "23503" \/ StartsWith(errorCodeStr, "23")
        THEN "constraint_violation"
        ELSE IF Includes(errorMessage, "timeout") \/ Includes(errorMessage, "timed out")
        THEN "timeout"
        ELSE IF Includes(errorMessage, "invalid") \/ Includes(errorMessage, "validation")
        THEN "validation_error"
        ELSE "unknown_error"

\* message.match(/<kind> "([^"]+)" does not exist/): the captured name of
\* the leftmost match, or "" when there is none
MatchQuotedName(message, kind) ==
    LET prefix == kind \o " \""
        suffix == "\" does not exist"
        NameEnd(i) ==
            \* index of the first `"` at or after the start of the name
            LET from == i + Len(prefix)
            IN  IF \E k \in from..Len(message) : CharAt(message, k) = "\""
                THEN CHOOSE k \in from..Len(message) :
                        /\ CharAt(message, k) = "\""
                        /\ \A j \in from..(k - 1) : CharAt(message, j) # "\""
                ELSE 0
        MatchAt(i) ==
            /\ Slice(message, i, i + Len(prefix) - 1) = prefix
            /\ NameEnd(i) > i + Len(prefix)
            /\ StartsWith(Slice(message, NameEnd(i), Len(message)), suffix)
        starts == {i \in 1..Len(message) : MatchAt(i)}
    IN  IF starts = {} THEN ""
        ELSE LET i == CHOOSE m \in starts : \A n \in starts : m <= n
             IN  SubSeq(message, i + Len(prefix), NameEnd(i) - 1)

\* getRecoverySuggestion without the extraction of the name from the message
getRecoverySuggestionGeneric(errorType, error) ==
    LET errorMessage == error.message
    IN  CASE errorType = "connection_error" ->
               "Check that the database host is accessible and the port is correct. Verify network connectivity."
          [] errorType = "authentication_error" ->
               "Verify the database username and password are correct. Check if the database user has proper permissions."
          [] errorType = "invalid_table" ->
               LET name == ""
               IN  IF name # ""
                   THEN "Table \"" \o name \o "\" does not exist. Check the table name and schema."
                   ELSE "Check that the table name is correct and exists in the specified schema."
          [] errorType = "invalid_column" ->
               LET name == MatchQuotedName(errorMessage, "column")
               IN  IF name # ""
                   THEN "Column \"" \o name \o "\" does not exist in the table. Verify the column name."
                   ELSE "Check that all column names are correct and exist in the table."
          [] errorType = "syntax_error" ->
               "Review the SQL syntax for errors. Check for missing commas, quotes, or keywords."
          [] errorType = "constraint_violation" ->
               IF Includes(errorMessage, "unique")
               THEN "A unique constraint was violated. The value already exists. Consider using an UPDATE instead or enabling skipOnConflict."
               ELSE IF Includes(errorMessage, "foreign key")
               THEN "A foreign key constraint was violated. Ensure referenced records exist in the related table."
               ELSE "A database constraint was violated. Check unique constraints, foreign keys, and NOT NULL requirements."
          [] errorType = "permission_denied" ->
               "The database user does not have permission for this operation. Grant the necessary privileges."
          [] errorType = "timeout" ->
               "The query took too long to execute. Consider adding more specific filters or optimizing the query."
          [] errorType = "validation_error" ->
               "One or more parameters are invalid. Check the parameter types and values."
          [] OTHER -> ""

\* the suggestion text, or "" for `undefined`
getRecoverySuggestion(errorType, error) ==
    LET errorMessage == error.message
    IN  CASE errorType = "connection_error" ->
               "Check that the database host is accessible and the port is correct. Verify network connectivity."
          [] errorType = "authentication_error" ->
               "Verify the database username and password are correct. Check if the database user has proper permissions."
          [] errorType = "invalid_table" ->
               LET name == MatchQuotedName(errorMessage, "relation")
               IN  IF name # ""
                   THEN "Table \"" \o name \o "\" does not exist. Check the table name and schema."
                   ELSE "Check that the table name is correct and exists in the specified schema."
          [] errorType = "invalid_column" ->
               LET name == MatchQuotedName(errorMessage, "column")
               IN  IF name # ""
                   THEN "Column \"" \o name \o "\" does not exist in the table. Verify the column name."
                   ELSE "Check that all column names are correct and exist in the table."
          [] errorType = "syntax_error" ->
               "Review the SQL syntax for errors. Check for missing commas, quotes, or keywords."
          [] errorType = "constraint_violation" ->
               IF Includes(errorMessage, "unique")
               THEN "A unique constraint was violated. The value already exists. Consider using an UPDATE instead or enabling skipOnConflict."
               ELSE IF Includes(errorMessage, "foreign key")
               THEN "A foreign key constraint was violated. Ensure referenced records exist in the related table."
               ELSE "A database constraint was violated. Check unique constraints, foreign keys, and NOT NULL requirements."
          [] errorType = "permission_denied" ->
               "The database user does not have permission for this operation. Grant the necessary privileges."
          [] errorType = "timeout" ->
               "The query took too long to execute. Consider adding more specific filters or optimizing the query."
          [] errorType = "validation_error" ->
               "One or more parameters are invalid. Check the parameter types and values."
          [] OTHER -> ""

\* An optional argument or field is a sequence of length 0 (undefined) or 1.
None == <<>>

Some(v) == <<v>>

\* a record field that is present only when its value is defined
OptField(name, opt) == IF Len(opt) = 0 THEN <<>> ELSE (name :> opt[1])

formatToolError(operation, error, table) ==
    LET errorType == categorizeError(error)
        suggestion == getRecoverySuggestion(errorType, error)
    IN  [success |-> FALSE,
         operation |-> operation,
         error |-> error.message,
         errorType |-> errorType]
        @@ OptField("table", table)
        @@ OptField("suggestion", IF suggestion = "" THEN None ELSE Some(suggestion))
        @@ OptField("sqlState", IF error.code = "" THEN None ELSE Some(error.code))

-----------------------------------------------------------------------------
(* shared/formatters: a row is a sequence of <<column, value>> pairs in    *)
(* key order                                                               *)

\* Object.keys(row)
Keys(row) == [i \in 1..Len(row) |-> row[i][1]]

formatQueryResponse(operation, data, table, maxRows) ==
    LET rowCount == Len(data)
        truncated == IF Len(maxRows) = 1 /\ maxRows[1] # 0
                     THEN rowCount >= maxRows[1]
                     ELSE FALSE
        columns == IF Len(data) > 0 THEN Keys(data[1]) ELSE <<>>
    IN  [success |-> TRUE,
         operation |-> operation,
         rowCount |-> rowCount,
         data |-> data,
         columns |-> columns,
         truncated |-> truncated]
        @@ OptField("table", table)

formatModificationResponse(operation, affectedRows, table, data) ==
    [success |-> TRUE,
     operation |-> operation,
     affectedRows |-> affectedRows]
    @@ OptField("table", table)
    @@ OptField("data", data)

-----------------------------------------------------------------------------
(* Invocation parameters.  An invocation carries a record `in` of the      *)
(* parameters the caller supplied (a parameter may be missing) and a set   *)
(* `bad` of parameters whose expression fails to evaluate.                 *)
(* this.getNodeParameter(name, 0, fallback) returns the supplied value or  *)
(* the fallback, and throws when the expression fails or when the          *)
(* parameter is missing and no fallback is given.                          *)

Param(in, name, fallback) == IF name \in DOMAIN in THEN in[name] ELSE fallback

Read(name, required) == [name |-> name, required |-> required]

\* the parameters each execute() reads at its start, in order
Reads(operation) ==
    CASE operation = "select" ->
           <<Read("schema", TRUE), Read("table", TRUE), Read("columns", FALSE),
             Read("whereConditions", FALSE), Read("sortBy", FALSE),
             Read("sortDirection", FALSE), Read("limit", FALSE)>>
      [] operation = "insert" ->
           <<Read("schema", TRUE), Read("table", TRUE), Read("data", TRUE),
             Read("skipOnConflict", FALSE), Read("returnData", FALSE)>>
      [] operation = "update" ->
           <<Read("schema", TRUE), Read("table", TRUE), Read("values", TRUE),
             Read("whereConditions", TRUE), Read("returnData", FALSE)>>
      [] operation = "delete" ->
           <<Read("schema", TRUE), Read("table", TRUE), Read("mode", TRUE),
             Read("whereConditions", FALSE), Read("confirmDestructive", FALSE)>>
      [] operation = "executeQuery" ->
           <<Read("query", TRUE), Read("parameters", FALSE), Read("queryMode", FALSE)>>

ReadThrows(in, bad, read) ==
    read.name \in bad \/ (read.required /\ read.name \notin DOMAIN in)

\* some getNodeParameter call at the start of execute() throws
DecodeThrows(operation, in, bad) ==
    \E i \in 1..Len(Reads(operation)) : ReadThrows(in, bad, Reads(operation)[i])

DecodeError == LocalError("Could not get parameter")

\* Object.keys(null)
NullKeysError == LocalError("Cannot convert undefined or null to object")

\* JSON inputs (`data`, `values`, `parameters`) are [t, rows]: t is
\* "malformed" for a text JSON.parse rejects, else the kind of the parsed
\* value; rows holds the object (as one row) or the array's items.
Json(t, rows) == [t |-> t, rows |-> rows]

\* the outcome of a run of synchronous checks
Pass == [kind |-> "pass", error |-> LocalError("")]

Reject(message) == [kind |-> "reject", error |-> LocalError(message)]

Throw(error) == [kind |-> "throw", error |-> error]

JoinErrors(validation, fallback) == OrElse(Join(validation.errors, "; "), fallback)

\* rowCount || 0: the count the driver reports, 0 when it reports none
OrZero(rowCount) == IF rowCount = None THEN 0 ELSE rowCount[1]

\* row[col]
Lookup(row, col) ==
    IF \E i \in 1..Len(row) : row[i][1] = col
    THEN row[CHOOSE i \in 1..Len(row) : row[i][1] = col][2]
    ELSE Undefined

Quote(identifier) == "\"" \o identifier \o "\""

DbCall(method, query, values, tx) ==
    [method |-> method, query |-> query, values |-> values, tx |-> tx]

-----------------------------------------------------------------------------
(* NeonSelectQueryTool.execute                                             *)

\* SelectValidate without the validateWhereClause step
SelectValidateNoWhere(in) ==
    LET table == in.table
        columns == Param(in, "columns", "*")
        limit == Param(in, "limit", 100)
    IN  IF ~validateTableName(table).valid
        THEN Reject(JoinErrors(validateTableName(table), "Invalid table name"))
        ELSE IF ~validateColumnList(columns).valid
        THEN Reject(JoinErrors(validateColumnList(columns), "Invalid column names"))
        ELSE IF ~validateLimit(limit).valid
        THEN Reject(JoinErrors(validateLimit(limit), "Invalid limit"))
        ELSE Pass

SelectValidate(in) ==
    LET table == in.table
        columns == Param(in, "columns", "*")
        whereConditions == Param(in, "whereConditions", "")
        limit == Param(in, "limit", 100)
    IN  IF ~validateTableName(table).valid
        THEN Reject(JoinErrors(validateTableName(table), "Invalid table name"))
        ELSE IF ~validateColumnList(columns).valid
        THEN Reject(JoinErrors(validateColumnList(columns), "Invalid column names"))
        ELSE IF ~validateWhereClause(whereConditions).valid
        THEN Reject(JoinErrors(validateWhereClause(whereConditions), "Invalid WHERE clause"))
        ELSE IF ~validateLimit(limit).valid
        THEN Reject(JoinErrors(validateLimit(limit), "Invalid limit"))
        ELSE Pass

SelectQuery(in) ==
    LET columns == Param(in, "columns", "*")
        whereConditions == Param(in, "whereConditions", "")
        sortBy == Param(in, "sortBy", "")
        sortDirection == Param(in, "sortDirection", "ASC")
        limit == Param(in, "limit", 100)
        columnList == IF Trim(columns) = "*" THEN "*" ELSE columns
    IN  "SELECT " \o columnList \o " FROM " \o Quote(in.schema) \o "." \o Quote(in.table)
        \o (IF ~IsBlank(whereConditions) THEN " WHERE " \o whereConditions ELSE "")
        \o (IF ~IsBlank(sortBy) THEN " ORDER BY " \o Quote(sortBy) \o " " \o sortDirection ELSE "")
        \o " LIMIT " \o ToString(limit)

SelectCall(in) == DbCall("any", SelectQuery(in), <<>>, FALSE)

SelectResponse(in, result) ==
    formatQueryResponse("select", result.rows, Some(in.table), Some(Param(in, "limit", 100)))

-----------------------------------------------------------------------------
(* NeonInsertDataTool.execute                                              *)

\* Array.isArray(parsed) ? parsed : [parsed]
DataToInsert(data) == data.rows

InsertValidate(in) ==
    LET table == in.table
        data == in.data
    IN  IF ~validateTableName(table).valid
        THEN Reject(JoinErrors(validateTableName(table), "Invalid table name"))
        ELSE IF data.t = "malformed"
        THEN Reject("Invalid JSON data format")
        ELSE IF data.t = "array" /\ Len(DataToInsert(data)) = 0
        THEN Reject("No data provided for insert")
        ELSE Pass

\* the checks between configureNeon and the statement assembly
InsertPrepare(in) ==
    IF in.data.t = "null"
    THEN Throw(NullKeysError)
    ELSE IF Len(Keys(DataToInsert(in.data)[1])) = 0
    THEN Reject("Data object has no columns")
    ELSE Pass

InsertPlaceholders(rowCount, columnCount) ==
    Join([rowIndex \in 1..rowCount |->
            "(" \o Join([colIndex \in 1..columnCount |->
                           "$" \o ToString((rowIndex - 1) * columnCount + colIndex)], ", ")
                \o ")"], ", ")

\* InsertQuery with the values written into the statement text
InsertQueryInterpolated(in) ==
    LET dataToInsert == DataToInsert(in.data)
        columns == Keys(dataToInsert[1])
        columnList == Join([i \in 1..Len(columns) |-> Quote(columns[i])], ", ")
        tuples == Join([r \in 1..Len(dataToInsert) |->
                          "(" \o Join([c \in 1..Len(columns) |->
                                         "'" \o Lookup(dataToInsert[r], columns[c]) \o "'"], ", ")
                              \o ")"], ", ")
    IN  "INSERT INTO " \o Quote(in.schema) \o "." \o Quote(in.table)
        \o " (" \o columnList \o ") VALUES " \o tuples
        \o (IF Param(in, "skipOnConflict", FALSE) THEN " ON CONFLICT DO NOTHING" ELSE "")
        \o (IF Param(in, "returnData", TRUE) THEN " RETURNING *" ELSE "")

\* InsertQuery with RETURNING * appended before ON CONFLICT DO NOTHING
InsertQueryReturningFirst(in) ==
    LET dataToInsert == DataToInsert(in.data)
        columns == Keys(dataToInsert[1])
        columnList == Join([i \in 1..Len(columns) |-> Quote(columns[i])], ", ")
        placeholders == InsertPlaceholders(Len(dataToInsert), Len(columns))
    IN  "INSERT INTO " \o Quote(in.schema) \o "." \o Quote(in.table)
        \o " (" \o columnList \o ") VALUES " \o placeholders
        \o (IF Param(in, "returnData", TRUE) THEN " RETURNING *" ELSE "")
        \o (IF Param(in, "skipOnConflict", FALSE) THEN " ON CONFLICT DO NOTHING" ELSE "")

InsertQuery(in) ==
    LET dataToInsert == DataToInsert(in.data)
        columns == Keys(dataToInsert[1])
        columnList == Join([i \in 1..Len(columns) |-> Quote(columns[i])], ", ")
        placeholders == InsertPlaceholders(Len(dataToInsert), Len(columns))
    IN  "INSERT INTO " \o Quote(in.schema) \o "." \o Quote(in.table)
        \o " (" \o columnList \o ") VALUES " \o placeholders
        \o (IF Param(in, "skipOnConflict", FALSE) THEN " ON CONFLICT DO NOTHING" ELSE "")
        \o (IF Param(in, "returnData", TRUE) THEN " RETURNING *" ELSE "")

InsertValues(in) ==
    LET dataToInsert == DataToInsert(in.data)
        columns == Keys(dataToInsert[1])
    IN  ConcatAll([r \in 1..Len(dataToInsert) |->
                     [c \in 1..Len(columns) |-> Lookup(dataToInsert[r], columns[c])]])

InsertCall(in) ==
    DbCall(IF Param(in, "returnData", TRUE) THEN "any" ELSE "result",
           InsertQuery(in), InsertValues(in), FALSE)

InsertResponse(in, result) ==
    LET returnData == Param(in, "returnData", TRUE)
        affectedRows == IF returnData THEN Len(result.rows) ELSE OrZero(result.rowCount)
    IN  formatModificationResponse("insert", affectedRows, Some(in.table),
                                   IF returnData THEN Some(result.rows) ELSE None)

-----------------------------------------------------------------------------
(* NeonUpdateDataTool.execute                                              *)

\* UpdateValidate without the WHERE-is-required check
UpdateValidateNoWhereGuard(in) ==
    LET table == in.table
        whereConditions == in.whereConditions
        values == in.values
    IN  IF ~validateTableName(table).valid
        THEN Reject(JoinErrors(validateTableName(table), "Invalid table name"))
        ELSE IF ~validateWhereClause(whereConditions).valid
        THEN Reject(JoinErrors(validateWhereClause(whereConditions), "Invalid WHERE clause"))
        ELSE IF values.t = "malformed"
        THEN Reject("Invalid JSON format for values")
        ELSE IF values.t = "null"
        THEN Throw(NullKeysError)
        ELSE IF Len(Keys(values.rows[1])) = 0
        THEN Reject("No columns provided to update")
        ELSE Pass

\* UpdateValidate with the WHERE-is-required check placed after the checks of
\* the values
UpdateValidateWhereGuardLate(in) ==
    LET table == in.table
        whereConditions == in.whereConditions
        values == in.values
    IN  IF ~validateTableName(table).valid
        THEN Reject(JoinErrors(validateTableName(table), "Invalid table name"))
        ELSE IF ~validateWhereClause(whereConditions).valid
        THEN Reject(JoinErrors(validateWhereClause(whereConditions), "Invalid WHERE clause"))
        ELSE IF values.t = "malformed"
        THEN Reject("Invalid JSON format for values")
        ELSE IF values.t = "null"
        THEN Throw(NullKeysError)
        ELSE IF Len(Keys(values.rows[1])) = 0
        THEN Reject("No columns provided to update")
        ELSE IF IsBlank(whereConditions)
        THEN Reject("WHERE conditions are required for UPDATE operations. To update all rows, explicitly provide \"1=1\" as the condition.")
        ELSE Pass

UpdateValidate(in) ==
    LET table == in.table
        whereConditions == in.whereConditions
        values == in.values
    IN  IF ~validateTableName(table).valid
        THEN Reject(JoinErrors(validateTableName(table), "Invalid table name"))
        ELSE IF IsBlank(whereConditions)
        THEN Reject("WHERE conditions are required for UPDATE operations. To update all rows, explicitly provide \"1=1\" as the condition.")
        ELSE IF ~validateWhereClause(whereConditions).valid
        THEN Reject(JoinErrors(validateWhereClause(whereConditions), "Invalid WHERE clause"))
        ELSE IF values.t = "malformed"
        THEN Reject("Invalid JSON format for values")
        ELSE IF values.t = "null"
        THEN Throw(NullKeysError)
        ELSE IF Len(Keys(values.rows[1])) = 0
        THEN Reject("No columns provided to update")
        ELSE Pass

UpdateQuery(in) ==
    LET columns == Keys(in.values.rows[1])
        setClause == Join([index \in 1..Len(columns) |->
                             Quote(columns[index]) \o " = $" \o ToString(index)], ", ")
    IN  "UPDATE " \o Quote(in.schema) \o "." \o Quote(in.table)
        \o " SET " \o setClause \o " WHERE " \o in.whereConditions
        \o (IF Param(in, "returnData", FALSE) THEN " RETURNING *" ELSE "")

UpdateValues(in) ==
    LET valuesToUpdate == in.values.rows[1]
        columns == Keys(valuesToUpdate)
    IN  [c \in 1..Len(columns) |-> Lookup(valuesToUpdate, columns[c])]

UpdateCall(in) ==
    DbCall(IF Param(in, "returnData", FALSE) THEN "any" ELSE "result",
           UpdateQuery(in), UpdateValues(in), FALSE)

UpdateResponse(in, result) ==
    LET returnData == Param(in, "returnData", FALSE)
        affectedRows == IF returnData THEN Len(result.rows) ELSE OrZero(result.rowCount)
    IN  formatModificationResponse("update", affectedRows, Some(in.table),
                                   IF returnData THEN Some(result.rows) ELSE None)

-----------------------------------------------------------------------------
(* NeonDeleteDataTool.execute                                              *)

\* DeleteValidate without the confirmDestructive gate
DeleteValidateNoConfirmation(in) ==
    LET table == in.table
        mode == in.mode
        whereConditions == Param(in, "whereConditions", "")
    IN  IF ~validateTableName(table).valid
        THEN Reject(JoinErrors(validateTableName(table), "Invalid table name"))
        ELSE IF mode = "delete" /\ IsBlank(whereConditions)
        THEN Reject("WHERE conditions are required for DELETE operations. To delete all rows, use TRUNCATE mode instead.")
        ELSE IF mode = "delete" /\ ~validateWhereClause(whereConditions).valid
        THEN Reject(JoinErrors(validateWhereClause(whereConditions), "Invalid WHERE clause"))
        ELSE Pass

DeleteValidate(in) ==
    LET table == in.table
        mode == in.mode
        whereConditions == Param(in, "whereConditions", "")
        confirmDestructive == Param(in, "confirmDestructive", FALSE)
    IN  IF ~validateTableName(table).valid
        THEN Reject(JoinErrors(validateTableName(table), "Invalid table name"))
        ELSE IF mode = "delete" /\ IsBlank(whereConditions)
        THEN Reject("WHERE conditions are required for DELETE operations. To delete all rows, use TRUNCATE mode instead.")
        ELSE IF mode = "delete" /\ ~validateWhereClause(whereConditions).valid
        THEN Reject(JoinErrors(validateWhereClause(whereConditions), "Invalid WHERE clause"))
        ELSE IF mode \in {"truncate", "drop"} /\ ~confirmDestructive
        THEN Reject(ToUpperCase(mode) \o " is a destructive operation. Set \"confirmDestructive\" to true to proceed.")
        ELSE Pass

DeleteQuery(in) ==
    LET target == Quote(in.schema) \o "." \o Quote(in.table)
    IN  CASE in.mode = "delete" ->
               "DELETE FROM " \o target \o " WHERE " \o Param(in, "whereConditions", "")
          [] in.mode = "truncate" -> "TRUNCATE TABLE " \o target
          [] in.mode = "drop" -> "DROP TABLE " \o target

DeleteCall(in) ==
    DbCall(IF in.mode = "delete" THEN "result" ELSE "none", DeleteQuery(in), <<>>, FALSE)

\* DeleteResponse without the sentinel of the truncate and drop modes
DeleteResponseNoSentinel(in, result) ==
    formatModificationResponse("delete", OrZero(result.rowCount), Some(in.table), None)

DeleteResponse(in, result) ==
    LET affectedRows == IF in.mode = "delete" THEN OrZero(result.rowCount) ELSE -1
    IN  formatModificationResponse("delete", affectedRows, Some(in.table), None)

-----------------------------------------------------------------------------
(* NeonExecuteSqlTool.execute                                              *)

\* ExecuteValidate without the validateSqlQuery step
ExecuteValidateParametersOnly(in) ==
    LET parameters == Param(in, "parameters", Json("array", <<>>))
    IN  IF parameters.t = "malformed"
        THEN Reject("Invalid JSON format for parameters")
        ELSE IF parameters.t # "array"
        THEN Reject("Parameters must be an array")
        ELSE Pass

ExecuteValidate(in) ==
    LET query == in.query
        parameters == Param(in, "parameters", Json("array", <<>>))
    IN  IF ~validateSqlQuery(query).valid
        THEN Reject(JoinErrors(validateSqlQuery(query), "Invalid SQL query"))
        ELSE IF parameters.t = "malformed"
        THEN Reject("Invalid JSON format for parameters")
        ELSE IF parameters.t # "array"
        THEN Reject("Parameters must be an array")
        ELSE Pass

\* IsSelectQuery without the conversion to upper case
IsSelectQueryCaseSensitive(query) ==
    StartsWith(Trim(query), "SELECT") \/ StartsWith(Trim(query), "WITH")

IsSelectQuery(query) ==
    LET upperQuery == ToUpperCase(Trim(query))
    IN  StartsWith(upperQuery, "SELECT") \/ StartsWith(upperQuery, "WITH")

\* ExecuteCall that never opens the transaction boundary
ExecuteCallNeverTx(in) ==
    DbCall(IF IsSelectQuery(in.query) THEN "any" ELSE "result",
           in.query,
           Param(in, "parameters", Json("array", <<>>)).rows,
           FALSE)

ExecuteCall(in) ==
    DbCall(IF IsSelectQuery(in.query) THEN "any" ELSE "result",
           in.query,
           Param(in, "parameters", Json("array", <<>>)).rows,
           Param(in, "queryMode", "single") = "transaction")

ExecuteResponse(in, result) ==
    IF IsSelectQuery(in.query)
    THEN formatQueryResponse("executeQuery", result.rows, None, None)
    ELSE formatModificationResponse("executeQuery", OrZero(result.rowCount), None, None)

-----------------------------------------------------------------------------
(* Dispatch over the five tools                                            *)

Operations == {"select", "insert", "update", "delete", "executeQuery"}

\* the validators and local checks that run before getCredentials
Validate(operation, in) ==
    CASE operation = "select" -> SelectValidate(in)
      [] operation = "insert" -> InsertValidate(in)
      [] operation = "update" -> UpdateValidate(in)
      [] operation = "delete" -> DeleteValidate(in)
      [] operation = "executeQuery" -> ExecuteValidate(in)

\* the checks that run after configureNeon, before the database call
Prepare(operation, in) ==
    IF operation = "insert" THEN InsertPrepare(in) ELSE Pass

\* the one database call of the tool
Call(operation, in) ==
    CASE operation = "select" -> SelectCall(in)
      [] operation = "insert" -> InsertCall(in)
      [] operation = "update" -> UpdateCall(in)
      [] operation = "delete" -> DeleteCall(in)
      [] operation = "executeQuery" -> ExecuteCall(in)

Response(operation, in, result) ==
    CASE operation = "select" -> SelectResponse(in, result)
      [] operation = "insert" -> InsertResponse(in, result)
      [] operation = "update" -> UpdateResponse(in, result)
      [] operation = "delete" -> DeleteResponse(in, result)
      [] operation = "executeQuery" -> ExecuteResponse(in, result)

\* the `table` argument of formatToolError on the early-return paths
TableArg(operation, in) ==
    IF operation = "executeQuery" THEN None ELSE Some(in.table)

\* how a step of execute() ends: at a later step, by returning
\* [[{ json: envelope }]], or by an exception leaving execute()
GoTo(step) == [pc |-> step, output |-> <<>>]

Returned(envelope) == [pc |-> "returned", output |-> <<envelope>>]

Raised == [pc |-> "raised", output |-> <<>>]

\* the catch block of execute(): four tools read `table` again, with a
\* fallback, outside any try
CatchBlock(operation, in, bad, error) ==
    IF operation = "executeQuery"
    THEN Returned(formatToolError(operation, error, None))
    ELSE IF "table" \in bad
    THEN Raised
    ELSE Returned(formatToolError(operation, error, Some(Param(in, "table", ""))))

\* after a run of checks: go on, return the locally built error, or catch
AfterChecks(operation, in, bad, checks, next) ==
    CASE checks.kind = "pass" -> GoTo(next)
      [] checks.kind = "reject" ->
           Returned(formatToolError(operation, checks.error, TableArg(operation, in)))
      [] checks.kind = "throw" -> CatchBlock(operation, in, bad, checks.error)

\* from the start of execute() to `await this.getCredentials`
OnStart(operation, in, bad) ==
    IF DecodeThrows(operation, in, bad)
    THEN CatchBlock(operation, in, bad, DecodeError)
    ELSE AfterChecks(operation, in, bad, Validate(operation, in), "acquire")

\* from the credentials and the handle to the `await db...` call
OnHandle(operation, in, bad, acquired) ==
    IF ~acquired.ok
    THEN CatchBlock(operation, in, bad, acquired.error)
    ELSE AfterChecks(operation, in, bad, Prepare(operation, in), "query")

\* OnDbResult with a retry: a failed call sends execute() back to the handle
OnDbResultRetry(operation, in, bad, result) ==
    IF ~result.ok
    THEN GoTo("acquire")
    ELSE Returned(Response(operation, in, result))

\* from the database's answer to the return of execute()
OnDbResult(operation, in, bad, result) ==
    IF ~result.ok
    THEN CatchBlock(operation, in, bad, result.error)
    ELSE Returned(Response(operation, in, result))

-----------------------------------------------------------------------------
(* Inputs and environment                                                  *)

\* the most rows the database returns or reports as affected
MaxRows == 2

Req(name, values) == {name :> v : v \in values}

Opt(name, values) == {<<>>} \cup Req(name, values)

Schemas == {"public", "a\"b"}

Tables == {"users", "", "1u", "u;x"}

Wheres == {"id = 1", " ", "x = 1 --", "id = 1;", "a = 1; b"}

Row1 == << <<"email", "v1">> >>

Row1b == << <<"email", "v2">> >>

Row2 == << <<"name", "v1">>, <<"age", "v2">> >>

\* a row that lacks a key of Row2 and has one of its own
RowOdd == << <<"name", "v3">>, <<"extra", "v4">> >>

RowBadKey == << <<"a\" = $1 --", "v1">> >>

EmptyRow == <<>>

SortChoices ==
    {<<>>, ("sortBy" :> "id") @@ ("sortDirection" :> "DESC"), ("sortBy" :> "a\" --"),
     ("sortBy" :> " ")}

SelectInputs ==
    {s @@ t @@ c @@ w @@ o @@ l :
        s \in Req("schema", Schemas), t \in Req("table", Tables),
        c \in Opt("columns", {"id, name", "id;x", "", " "}),
        w \in Opt("whereConditions", Wheres),
        o \in SortChoices,
        l \in Opt("limit", {0, MaxRows})}

InsertInputs ==
    {s @@ t @@ d @@ k @@ r :
        s \in Req("schema", Schemas), t \in Req("table", Tables),
        d \in Req("data", {Json("malformed", <<>>), Json("null", <<>>),
                           Json("array", <<>>), Json("object", <<EmptyRow>>),
                           Json("object", <<Row1>>), Json("object", <<RowBadKey>>),
                           Json("array", <<Row1, Row1b>>),
                           Json("array", <<Row2, RowOdd>>)}),
        k \in Opt("skipOnConflict", {TRUE}),
        r \in Opt("returnData", {FALSE})}

UpdateInputs ==
    {s @@ t @@ v @@ w @@ r :
        s \in Req("schema", Schemas), t \in Req("table", Tables),
        v \in Req("values", {Json("malformed", <<>>), Json("null", <<>>),
                             Json("object", <<EmptyRow>>), Json("object", <<Row2>>),
                             Json("object", <<RowBadKey>>)}),
        w \in Req("whereConditions", {""} \cup Wheres),
        r \in Opt("returnData", {TRUE})}

DeleteInputs ==
    {s @@ t @@ m @@ w @@ c :
        s \in Req("schema", Schemas), t \in Req("table", Tables),
        m \in Req("mode", {"delete", "truncate", "drop"}),
        w \in Opt("whereConditions", Wheres),
        c \in Opt("confirmDestructive", {TRUE})}

Queries ==
    {"", "SELECT * FROM users WHERE id = $1", "with t as (select 1) select * from t;",
     " Select 1; ",
     "UPDATE users SET a = $1", "SELECT * FROM users; DROP TABLE users",
     "DROP TABLE users", "delete from users where note = 'revoked'"}

ExecuteInputs ==
    {q @@ a @@ m :
        q \in Req("query", Queries),
        a \in Opt("parameters", {Json("malformed", <<>>), Json("object", <<Row1>>),
                                 Json("array", <<"v1">>)}),
        m \in Opt("queryMode", {"transaction", "independently"})}

Inputs(operation) ==
    CASE operation = "select" -> SelectInputs
      [] operation = "insert" -> InsertInputs
      [] operation = "update" -> UpdateInputs
      [] operation = "delete" -> DeleteInputs
      [] operation = "executeQuery" -> ExecuteInputs

\* the parameters whose expression may fail to evaluate: none, or one
Faults(operation) ==
    {{}} \cup {{Reads(operation)[i].name} : i \in {1, 2, Len(Reads(operation))}}

\* getCredentials / configureNeon: the handle, or a thrown error
AcquireOutcomes ==
    {[ok |-> TRUE, error |-> LocalError("")],
     [ok |-> FALSE, error |-> LocalError("Credentials could not be found")]}

DbRow == << <<"id", "v1">>, <<"email", "v2">> >>

\* the relations a statement may name without their existing
Relations == {"users", "ghost", "passwords"}

\* the driver's error for a relation that does not exist
UndefinedRelation(name) ==
    [message |-> "relation \"" \o name \o "\" does not exist", code |-> "42P01"]

DbErrors ==
    {UndefinedRelation(name) : name \in Relations} \cup
    {[message |-> "duplicate key value violates unique constraint \"users_pkey\"",
      code |-> "23505"],
     [message |-> "Query read timeout", code |-> ""]}

\* what db.any / db.result / db.none resolve to, or the error they reject with
DbResults(method) ==
    {[ok |-> TRUE, error |-> LocalError(""),
      rows |-> IF method = "any" THEN [i \in 1..n |-> DbRow] ELSE <<>>,
      rowCount |-> IF method = "result" THEN Some(n) ELSE None] :
        n \in IF method = "none" THEN {0} ELSE 0..MaxRows}
    \cup (IF method = "result"
          THEN {[ok |-> TRUE, error |-> LocalError(""), rows |-> <<>>, rowCount |-> None]}
          ELSE {})
    \cup {[ok |-> FALSE, error |-> e, rows |-> <<>>, rowCount |-> None] : e \in DbErrors}

-----------------------------------------------------------------------------
(* State                                                                   *)

VARIABLES
    procs,      \* the invocations that can be in progress
    pc,         \* pc[p]: where invocation p stands in execute()
    op,         \* op[p]: the tool invoked
    params,     \* params[p]: the parameters supplied
    faulty,     \* faulty[p]: the parameters whose expression fails
    handle,     \* handle[p]: configureNeon has returned the handle
    dbCalls,    \* dbCalls[p]: the calls issued on the handle
    replies,    \* replies[p]: what the awaited collaborators answered
    output,     \* output[p]: the envelopes returned to the caller
    fn,         \* the shared function under direct call, or "none"
    arg,        \* the argument it is called with
    ret         \* what it returned

vars == <<procs, pc, op, params, faulty, handle, dbCalls, replies, output, fn, arg, ret>>

\* no direct call of a shared function is in progress
NoCall ==
    /\ fn = "none"
    /\ arg = <<>>
    /\ ret = <<>>

NoParams == <<>>

Init ==
    /\ procs = {"p1"}
    /\ pc = [p \in procs |-> "idle"]
    /\ op = [p \in procs |-> "none"]
    /\ params = [p \in procs |-> NoParams]
    /\ faulty = [p \in procs |-> {}]
    /\ handle = [p \in procs |-> FALSE]
    /\ dbCalls = [p \in procs |-> <<>>]
    /\ replies = [p \in procs |-> <<>>]
    /\ output = [p \in procs |-> <<>>]
    /\ NoCall

\* the agent calls a tool
Invoke ==
    \E p \in procs :
        /\ pc[p] = "idle"
        /\ \E operation \in Operations :
             \E in \in Inputs(operation), bad \in Faults(operation) :
                /\ op' = [op EXCEPT ![p] = operation]
                /\ params' = [params EXCEPT ![p] = in]
                /\ faulty' = [faulty EXCEPT ![p] = bad]
        /\ pc' = [pc EXCEPT ![p] = "start"]
        /\ UNCHANGED <<procs, handle, dbCalls, replies, output, fn, arg, ret>>

\* parameter reads and validators, up to the first await
Start ==
    \E p \in procs :
        /\ pc[p] = "start"
        /\ LET next == OnStart(op[p], params[p], faulty[p])
           IN  /\ pc' = [pc EXCEPT ![p] = next.pc]
               /\ output' = [output EXCEPT ![p] = next.output]
        /\ UNCHANGED <<procs, op, params, faulty, handle, dbCalls, replies, fn, arg, ret>>

\* getCredentials and configureNeon answer; the statement is assembled and
\* the database call issued
Acquire ==
    \E p \in procs :
        /\ pc[p] = "acquire"
        /\ \E acquired \in AcquireOutcomes :
             LET next == OnHandle(op[p], params[p], faulty[p], acquired)
             IN  /\ handle' = [handle EXCEPT ![p] = acquired.ok]
                 /\ replies' = [replies EXCEPT ![p] = Append(@, acquired)]
                 /\ pc' = [pc EXCEPT ![p] = next.pc]
                 /\ output' = [output EXCEPT ![p] = next.output]
                 /\ dbCalls' = [dbCalls EXCEPT ![p] =
                                  IF next.pc = "query"
                                  THEN Append(@, Call(op[p], params[p]))
                                  ELSE @]
        /\ UNCHANGED <<procs, op, params, faulty, fn, arg, ret>>

\* DbRespond with the parameters kept in one place for all invocations of a
\* tool: the envelope is formatted from those of whichever invocation of it
\* is in progress
DbRespondSharedParams ==
    \E p \in procs :
        /\ pc[p] = "query"
        /\ \E result \in DbResults(dbCalls[p][Len(dbCalls[p])].method) :
             \E q \in {r \in procs : op[r] = op[p] /\ pc[r] \in {"acquire", "query"}} :
                LET next == OnDbResult(op[p], params[q], faulty[p], result)
                IN  /\ pc' = [pc EXCEPT ![p] = next.pc]
                    /\ replies' = [replies EXCEPT ![p] = Append(@, result)]
                    /\ output' = [output EXCEPT ![p] = next.output]
        /\ UNCHANGED <<procs, op, params, faulty, handle, dbCalls, fn, arg, ret>>

\* the database answers the call; the envelope is formatted and returned
DbRespond ==
    \E p \in procs :
        /\ pc[p] = "query"
        /\ \E result \in DbResults(dbCalls[p][Len(dbCalls[p])].method) :
             LET next == OnDbResult(op[p], params[p], faulty[p], result)
             IN  /\ pc' = [pc EXCEPT ![p] = next.pc]
                 /\ replies' = [replies EXCEPT ![p] = Append(@, result)]
                 /\ output' = [output EXCEPT ![p] = next.output]
        /\ UNCHANGED <<procs, op, params, faulty, handle, dbCalls, fn, arg, ret>>

\* the invocation is over; its parameters and results are discarded
Finish ==
    \E p \in procs :
        /\ pc[p] \in {"returned", "raised"}
        /\ pc' = [pc EXCEPT ![p] = "idle"]
        /\ op' = [op EXCEPT ![p] = "none"]
        /\ params' = [params EXCEPT ![p] = NoParams]
        /\ faulty' = [faulty EXCEPT ![p] = {}]
        /\ handle' = [handle EXCEPT ![p] = FALSE]
        /\ dbCalls' = [dbCalls EXCEPT ![p] = <<>>]
        /\ replies' = [replies EXCEPT ![p] = <<>>]
        /\ output' = [output EXCEPT ![p] = <<>>]
        /\ UNCHANGED <<procs, fn, arg, ret>>

Next ==
    \/ Invoke
    \/ Start
    \/ Acquire
    \/ DbRespond
    \/ Finish

Spec == Init /\ [][Next]_vars

\* the values a caller may put in a row
Values == {"v1", "v2"}

\* the rows with the keys of `row`, in the same order, and any values
RowVariants(row) ==
    {[i \in 1..Len(row) |-> <<row[i][1], f[i]>>] : f \in [1..Len(row) -> Values]}

\* the JSON inputs that differ from `json` in row values only
JsonVariants(json) ==
    {Json(json.t, rows) :
        rows \in {g \in [1..Len(json.rows) -> UNION {RowVariants(json.rows[r]) :
                                                        r \in 1..Len(json.rows)}] :
                    \A r \in 1..Len(json.rows) : g[r] \in RowVariants(json.rows[r])}}

\* the invocations that differ from `in` in row/column values only
ValueVariants(operation, in) ==
    LET name == IF operation = "insert" THEN "data" ELSE "values"
    IN  {[in EXCEPT ![name] = j] : j \in JsonVariants(in[name])}

PairInit ==
    /\ procs = {"p1", "p2"}
    /\ pc = [p \in procs |-> "idle"]
    /\ op = [p \in procs |-> "none"]
    /\ params = [p \in procs |-> NoParams]
    /\ faulty = [p \in procs |-> {}]
    /\ handle = [p \in procs |-> FALSE]
    /\ dbCalls = [p \in procs |-> <<>>]
    /\ replies = [p \in procs |-> <<>>]
    /\ output = [p \in procs |-> <<>>]
    /\ NoCall

\* the agent calls Insert or Update twice, with different values
InvokePair ==
    /\ \A p \in procs : pc[p] = "idle"
    /\ \E operation \in {"insert", "update"} :
         \E in1 \in Inputs(operation) :
            \E in2 \in ValueVariants(operation, in1) \ {in1} :
                /\ op' = [p \in procs |-> operation]
                /\ params' = [p \in procs |-> IF p = "p1" THEN in1 ELSE in2]
    /\ pc' = [p \in procs |-> "start"]
    /\ UNCHANGED <<procs, faulty, handle, dbCalls, replies, output, fn, arg, ret>>

PairNext ==
    \/ InvokePair
    \/ Start
    \/ Acquire
    \/ DbRespond
    \/ Finish

\* two invocations that agree on everything but the row/column values
PairSpec == PairInit /\ [][PairNext]_vars

\* the tables two concurrent callers name
ConcTables == {"users", "orders"}

\* the invocations two concurrent callers make
ConcInputs(operation) ==
    LET target == {s @@ t : s \in Req("schema", {"public"}), t \in Req("table", ConcTables)}
    IN  CASE operation = "select" -> target
          [] operation = "insert" ->
               {g @@ d : g \in target, d \in Req("data", {Json("object", <<Row1>>)})}
          [] operation = "update" ->
               {g @@ v @@ w @@ r :
                   g \in target, v \in Req("values", {Json("object", <<Row2>>)}),
                   w \in Req("whereConditions", {"", "id = 1"}),
                   r \in Req("returnData", {TRUE})}
          [] operation = "delete" ->
               {g @@ m @@ c :
                   g \in target, m \in Req("mode", {"truncate"}),
                   c \in Req("confirmDestructive", {TRUE})}
          [] operation = "executeQuery" ->
               {q @@ m :
                   q \in Req("query", {"SELECT * FROM users WHERE id = $1",
                                       "DROP TABLE users"}),
                   m \in Req("queryMode", {"transaction"})}

\* none of the expressions fails, or Update's last one does
ConcFaults(operation) ==
    IF operation = "update" THEN {{}, {"returnData"}} ELSE {{}}

\* a caller invokes a tool while the other invocation may be in progress
ConcInvoke ==
    \E p \in procs :
        /\ pc[p] = "idle"
        /\ \E operation \in Operations :
             \E in \in ConcInputs(operation), bad \in ConcFaults(operation) :
                /\ op' = [op EXCEPT ![p] = operation]
                /\ params' = [params EXCEPT ![p] = in]
                /\ faulty' = [faulty EXCEPT ![p] = bad]
        /\ pc' = [pc EXCEPT ![p] = "start"]
        /\ UNCHANGED <<procs, handle, dbCalls, replies, output, fn, arg, ret>>

ConcNext ==
    \/ ConcInvoke
    \/ Start
    \/ Acquire
    \/ DbRespond
    \/ Finish

\* two invocations of any tools, their steps interleaved in any order
ConcSpec == PairInit /\ [][ConcNext]_vars

TypeOK ==
    /\ \A p \in procs :
        /\ pc[p] \in {"idle", "start", "acquire", "query", "returned", "raised"}
        /\ op[p] \in Operations \cup {"none"}
        /\ Len(output[p]) <= 1

-----------------------------------------------------------------------------
(* Direct calls of the shared functions: the caller picks an argument and  *)
(* calls one function on it                                                *)

\* the driver and socket codes an error may carry ("" for none)
ErrorCodes ==
    {"", "ECONNREFUSED", "ENOTFOUND", "ETIMEDOUT", "28P01", "42P01", "42703",
     "42501", "42601", "23505", "23503", "23514", "57014"}

\* fragments of error messages, some in mixed case
Phrases ==
    {"", "Password Authentication failed", "relation \"users\" does not exist",
     "column \"age\" does not exist", "Permission Denied for table users",
     "syntax error at or near \"FROM\"", "Query read timeout", "connection timed out",
     "Invalid input value", "validation failed", "something broke"}

ErrorMessages == {a \o (IF a = "" \/ b = "" THEN "" ELSE ": ") \o b : a, b \in Phrases}

ErrorArgs ==
    {[kind |-> "error", error |-> [message |-> m, code |-> c]] :
        m \in ErrorMessages, c \in ErrorCodes}

\* the longest text drawn character by character
MaxLen == 3

Alphabet == {"a", "Z", "_", "1", ";", "-", "/", "*", " "}

RECURSIVE TextsUpTo(_)
TextsUpTo(n) ==
    IF n = 0 THEN {""} ELSE {""} \cup {c \o t : c \in Alphabet, t \in TextsUpTo(n - 1)}

\* every second letter in lower case
RECURSIVE MixedCase(_)
MixedCase(s) ==
    IF Len(s) < 2 THEN s
    ELSE CharAt(s, 1) \o LowerChar(CharAt(s, 2)) \o MixedCase(SubSeq(s, 3, Len(s)))

\* WHERE fragments: harmless ones, and ones carrying a keyword or a comment
\* marker in some letter case
WhereTexts ==
    {"\t \n", "id = 1", "name = 'Bob'", "created_at > 1", "a = 1;", "x - 1 / 2 * 3"}
    \cup {pre \o word \o post :
            pre \in {"", "id = 1 "}, post \in {"", " x"},
            word \in UNION {{WhereDangerous[i], ToLowerCase(WhereDangerous[i]),
                             MixedCase(WhereDangerous[i])} : i \in 1..Len(WhereDangerous)}
                     \cup {"--", "/*"}}

Statements ==
    {"SELECT 1", "select a from t", "with c as (select 1) select 2", "UPDATE t SET a = ';'",
     "DROP TABLE t", "x"}

\* raw SQL texts with none, one or several `;` at various places
SqlTexts ==
    {head \o a \o mid \o b \o tail :
        head \in {"", " "},
        a \in Statements, mid \in {"", ";", "; "},
        b \in {"", "GRANT ALL ON t TO u", "select 2"}, tail \in {"", ";", "; ", ";\n", ";;"}}

\* comma-separated column lists
ColumnLists ==
    LET items == {"id", " name ", "1a", "a;b", "", "*", "a b--"}
    IN  {a \o "," \o b : a, b \in items} \cup {" * ", "id,name,1a,a;b"}

TextArgs ==
    {[kind |-> "text", text |-> t] :
        t \in TextsUpTo(MaxLen) \cup WhereTexts \cup SqlTexts \cup ColumnLists
                \cup {Undefined}}

\* the rows a query may have returned: up to n rows, alike or not
RECURSIVE RowLists(_)
RowLists(n) ==
    IF n = 0 THEN {<<>>}
    ELSE RowLists(n - 1)
         \cup {Append(rows, row) : rows \in {r \in RowLists(n - 1) : Len(r) = n - 1},
                                   row \in {DbRow, Row1, EmptyRow}}

\* options?.maxRows: absent, or a number
RowCaps == {None} \cup {Some(cap) : cap \in -1..(MaxRows + 1)}

RowsArgs ==
    {[kind |-> "rows", operation |-> operation, data |-> data, table |-> table,
      maxRows |-> maxRows] :
        operation \in {"select", "executeQuery"},
        data \in RowLists(MaxRows),
        table \in {None, Some("users")},
        maxRows \in RowCaps}

CallArgs == ErrorArgs \cup TextArgs \cup RowsArgs

SharedInit ==
    /\ procs = {"p1"}
    /\ pc = [p \in procs |-> "idle"]
    /\ op = [p \in procs |-> "none"]
    /\ params = [p \in procs |-> NoParams]
    /\ faulty = [p \in procs |-> {}]
    /\ handle = [p \in procs |-> FALSE]
    /\ dbCalls = [p \in procs |-> <<>>]
    /\ replies = [p \in procs |-> <<>>]
    /\ output = [p \in procs |-> <<>>]
    /\ fn = "none"
    /\ arg \in CallArgs
    /\ ret = <<>>

CallCategorizeError ==
    /\ fn = "none"
    /\ arg.kind = "error"
    /\ fn' = "categorizeError"
    /\ ret' = categorizeError(arg.error)
    /\ UNCHANGED <<procs, pc, op, params, faulty, handle, dbCalls, replies, output, arg>>

CallValidateTableName ==
    /\ fn = "none"
    /\ arg.kind = "text"
    /\ fn' = "validateTableName"
    /\ ret' = validateTableName(arg.text)
    /\ UNCHANGED <<procs, pc, op, params, faulty, handle, dbCalls, replies, output, arg>>

CallValidateColumnName ==
    /\ fn = "none"
    /\ arg.kind = "text"
    /\ fn' = "validateColumnName"
    /\ ret' = validateColumnName(arg.text)
    /\ UNCHANGED <<procs, pc, op, params, faulty, handle, dbCalls, replies, output, arg>>

CallValidateWhereClause ==
    /\ fn = "none"
    /\ arg.kind = "text"
    /\ fn' = "validateWhereClause"
    /\ ret' = validateWhereClause(arg.text)
    /\ UNCHANGED <<procs, pc, op, params, faulty, handle, dbCalls, replies, output, arg>>

CallValidateSqlQuery ==
    /\ fn = "none"
    /\ arg.kind = "text"
    /\ fn' = "validateSqlQuery"
    /\ ret' = validateSqlQuery(arg.text)
    /\ UNCHANGED <<procs, pc, op, params, faulty, handle, dbCalls, replies, output, arg>>

CallFormatQueryResponse ==
    /\ fn = "none"
    /\ arg.kind = "rows"
    /\ fn' = "formatQueryResponse"
    /\ ret' = formatQueryResponse(arg.operation, arg.data, arg.table, arg.maxRows)
    /\ UNCHANGED <<procs, pc, op, params, faulty, handle, dbCalls, replies, output, arg>>

SharedNext ==
    \/ CallFormatQueryResponse
    \/ CallCategorizeError
    \/ CallValidateSqlQuery
    \/ CallValidateWhereClause
    \/ CallValidateTableName
    \/ CallValidateColumnName

\* one call of one shared function on one argument
SharedSpec == SharedInit /\ [][SharedNext]_vars

-----------------------------------------------------------------------------
(* Vocabulary of the properties                                            *)

Invoked(p) == pc[p] # "idle"

Done(p) == pc[p] \in {"returned", "raised"}

\* every read up to and including the one of `name` yields a value
Decodes(p, name) ==
    LET reads == Reads(op[p])
    IN  \E k \in 1..Len(reads) :
           /\ reads[k].name = name
           /\ \A i \in 1..k : ~ReadThrows(params[p], faulty[p], reads[i])

\* every parameter read at the start of execute() yields a value
Decoded(p) == Invoked(p) /\ ~DecodeThrows(op[p], params[p], faulty[p])

WhereOf(p) == Param(params[p], "whereConditions", "")

ReturnedError(p) ==
    pc[p] = "returned" /\ Len(output[p]) = 1 /\ output[p][1].success = FALSE

\* the invocation was turned away before the handle was asked for
StoppedBeforeHandle(p) ==
    /\ pc[p] \in {"start", "returned"}
    /\ ~handle[p]
    /\ dbCalls[p] = <<>>
    /\ Done(p) => ReturnedError(p)

\* Update, or Delete in `delete` mode, holding a blank WHERE fragment
BlankWhereCase(p) ==
    /\ Invoked(p)
    /\ op[p] \in {"update", "delete"}
    /\ Decodes(p, "whereConditions")
    /\ op[p] = "delete" => params[p].mode = "delete"
    /\ IsBlank(WhereOf(p))

\* C1: an Update, or a Delete in `delete` mode, whose WHERE fragment is
\* empty or only whitespace returns an envelope with success:false and
\* issues no database call, whatever its other parameters are.
C1_BlankWhereNeverReachesDb ==
    \A p \in procs : BlankWhereCase(p) => StoppedBeforeHandle(p)

C1_Witness ==
    \E p \in procs :
        /\ BlankWhereCase(p)
        /\ validateTableName(params[p].table).valid
        /\ "returnData" \in DOMAIN params[p]
        /\ WhereOf(p) = " "
        /\ ReturnedError(p)

\* C2: with a valid table name and an empty WHERE fragment, the error
\* envelope of Update and of Delete in `delete` mode has errorType
\* "validation_error".
C2_BlankWhereIsValidationError ==
    \A p \in procs :
        (/\ BlankWhereCase(p)
         /\ validateTableName(params[p].table).valid
         /\ ReturnedError(p))
        => output[p][1].errorType = "validation_error"

\* Delete in `truncate` or `drop` mode with a valid table name
DestructiveCase(p) ==
    /\ Decoded(p)
    /\ op[p] = "delete"
    /\ params[p].mode \in {"truncate", "drop"}
    /\ validateTableName(params[p].table).valid

Confirmed(p) == Param(params[p], "confirmDestructive", FALSE)

DestructiveStatement(p) ==
    (IF params[p].mode = "truncate" THEN "TRUNCATE TABLE " ELSE "DROP TABLE ")
    \o "\"" \o params[p].schema \o "\".\"" \o params[p].table \o "\""

IsDestructive(call) ==
    StartsWith(call.query, "TRUNCATE") \/ StartsWith(call.query, "DROP")

LocallyRejected(p) ==
    /\ Decoded(p)
    /\ \/ Validate(op[p], params[p]).kind = "reject"
       \/ /\ Validate(op[p], params[p]).kind = "pass"
          /\ handle[p]
          /\ Prepare(op[p], params[p]).kind = "reject"

\* C4: every locally detected validation failure, in any of the five
\* operations, produces an error envelope whose errorType is
\* "validation_error", whatever the wording of the message.
C4_LocalFailureIsValidationError ==
    \A p \in procs :
        (LocallyRejected(p) /\ ReturnedError(p))
        => output[p][1].errorType = "validation_error"

\* the validation steps of each operation, stated on its parameters
ValidationFails(p) ==
    LET in == params[p]
    IN  CASE op[p] = "select" ->
               \/ ~validateTableName(in.table).valid
               \/ ~validateColumnList(Param(in, "columns", "*")).valid
               \/ ~validateWhereClause(WhereOf(p)).valid
               \/ ~validateLimit(Param(in, "limit", 100)).valid
          [] op[p] = "insert" ->
               \/ ~validateTableName(in.table).valid
               \/ in.data.t = "malformed"
               \/ in.data.t = "array" /\ in.data.rows = <<>>
               \/ in.data.t \in {"array", "object"} /\ in.data.rows # <<>>
                    /\ in.data.rows[1] = <<>>
          [] op[p] = "update" ->
               \/ ~validateTableName(in.table).valid
               \/ IsBlank(WhereOf(p))
               \/ ~validateWhereClause(WhereOf(p)).valid
               \/ in.values.t = "malformed"
               \/ in.values.t = "object" /\ in.values.rows[1] = <<>>
          [] op[p] = "delete" ->
               \/ ~validateTableName(in.table).valid
               \/ in.mode = "delete" /\ IsBlank(WhereOf(p))
               \/ in.mode = "delete" /\ ~validateWhereClause(WhereOf(p)).valid
               \/ in.mode \in {"truncate", "drop"} /\ ~Confirmed(p)
          [] op[p] = "executeQuery" ->
               \/ ~validateSqlQuery(in.query).valid
               \/ Param(in, "parameters", Json("array", <<>>)).t # "array"

\* C5: when a validation step of an invocation fails, the invocation ends
\* with an error envelope and executes no SQL statement.
C5_ValidationFailureExecutesNothing ==
    \A p \in procs :
        (Decoded(p) /\ ValidationFails(p)) =>
            /\ dbCalls[p] = <<>>
            /\ pc[p] # "query"
            /\ Done(p) => ReturnedError(p)

C5_Witness ==
    \E p \in procs :
        /\ Decoded(p)
        /\ op[p] = "select"
        /\ validateTableName(params[p].table).valid
        /\ validateColumnList(Param(params[p], "columns", "*")).valid
        /\ ~validateWhereClause(WhereOf(p)).valid
        /\ ReturnedError(p)

\* the identifiers a tool places in its statement
Identifiers(p) ==
    LET in == params[p]
        KeySet(row) == {row[i][1] : i \in 1..Len(row)}
    IN  [schema |-> in.schema,
         table |-> in.table,
         columns |->
            CASE op[p] = "select" ->
                   LET list == Split(Param(in, "columns", "*"), ",")
                   IN  {Trim(list[i]) : i \in 1..Len(list)}
                       \cup (IF IsBlank(Param(in, "sortBy", "")) THEN {} ELSE {in.sortBy})
              [] op[p] = "insert" -> KeySet(in.data.rows[1])
              [] op[p] = "update" -> KeySet(in.values.rows[1])
              [] op[p] = "delete" -> {}]

\* C6: every statement Select, Insert, Update or Delete sends is assembled
\* only from identifiers that passed validateTableName / validateColumnName
\* (schema, table, column names, sort column) and are double-quoted.
C6_OnlyValidatedQuotedIdentifiers ==
    \A p \in procs :
        (op[p] \in {"select", "insert", "update", "delete"} /\ dbCalls[p] # <<>>) =>
            LET ids == Identifiers(p)
                text == dbCalls[p][1].query
            IN  /\ validateTableName(ids.schema).valid
                /\ validateTableName(ids.table).valid
                /\ Includes(text, Quote(ids.schema) \o "." \o Quote(ids.table))
                /\ \A c \in ids.columns :
                      /\ validateColumnName(c).valid
                      /\ c = "*" \/ Includes(text, Quote(c))

\* the values of an Insert or Update in statement order: what each row
\* holds for the columns of the first row
RowValues(p) ==
    LET rows == IF op[p] = "insert" THEN params[p].data.rows ELSE params[p].values.rows
        Held(row, key) ==
            IF \E k \in 1..Len(row) : row[k][1] = key
            THEN row[CHOOSE k \in 1..Len(row) : row[k][1] = key][2]
            ELSE Undefined
    IN  ConcatAll([r \in 1..Len(rows) |->
                     [c \in 1..Len(rows[1]) |-> Held(rows[r], rows[1][c][1])]])

\* p and q agree on the tool and on every parameter but the row values
AgreeButValues(p, q) ==
    /\ op[p] = op[q]
    /\ op[p] \in {"insert", "update"}
    /\ Decoded(p) /\ Decoded(q)
    /\ params[q] \in ValueVariants(op[p], params[p])

\* C7: two Insert (or Update) invocations that agree on schema, table,
\* column names, number of rows, WHERE fragment and flags but differ in
\* the values send the same statement text; the values are only in the
\* bound-parameter array, never in the text.
C7_ValuesOnlyInBoundParameters ==
    \A p, q \in procs :
        (AgreeButValues(p, q) /\ dbCalls[p] # <<>> /\ dbCalls[q] # <<>>) =>
            /\ dbCalls[p][1].query = dbCalls[q][1].query
            /\ dbCalls[p][1].values = RowValues(p)
            /\ \A v \in Values : ~Includes(dbCalls[p][1].query, v)

C7_Witness ==
    \E p, q \in procs :
        /\ AgreeButValues(p, q)
        /\ op[p] = "insert"
        /\ Len(params[p].data.rows) = 2
        /\ dbCalls[p] # <<>> /\ dbCalls[q] # <<>>
        /\ dbCalls[p][1].values # dbCalls[q][1].values

\* C8: an invocation issues at most one database call; when the call
\* fails, the failure is reported in one error envelope and no further
\* call is issued.
C8_AtMostOneDbCall ==
    \A p \in procs :
        /\ Len(dbCalls[p]) <= 1
        /\ Len(output[p]) <= 1
        /\ pc[p] = "query" => Len(dbCalls[p]) = 1 /\ output[p] = <<>>

C8_Witness ==
    \E p \in procs :
        /\ ReturnedError(p)
        /\ Len(dbCalls[p]) = 1
        /\ \E e \in DbErrors : output[p][1].error = e.message

QueryShape(envelope) ==
    /\ envelope.success
    /\ "rowCount" \in DOMAIN envelope
    /\ "affectedRows" \notin DOMAIN envelope

ModificationShape(envelope) ==
    /\ envelope.success
    /\ "affectedRows" \in DOMAIN envelope
    /\ "rowCount" \notin DOMAIN envelope

ErrorShape(envelope) ==
    /\ ~envelope.success
    /\ "errorType" \in DOMAIN envelope
    /\ "data" \notin DOMAIN envelope

\* C9: an invocation that has ended has returned exactly one envelope, of
\* exactly one of the three shapes: query success, modification success
\* or error; an error envelope carries no `data`.
C9_ExactlyOneEnvelopeOfOneShape ==
    \A p \in procs :
        Done(p) =>
            /\ Len(output[p]) = 1
            /\ LET e == output[p][1]
               IN  \/ QueryShape(e) /\ ~ModificationShape(e) /\ ~ErrorShape(e)
                   \/ ~QueryShape(e) /\ ModificationShape(e) /\ ~ErrorShape(e)
                   \/ ~QueryShape(e) /\ ~ModificationShape(e) /\ ErrorShape(e)

\* C10: no exception leaves a tool operation: every invocation ends by
\* returning an error or success envelope.
C10_NoExceptionEscapes ==
    \A p \in procs : pc[p] # "raised"

-----------------------------------------------------------------------------
(* The error classifier                                                    *)

\* the ten categories, in the precedence order of the classifier
Categories ==
    <<"connection_error", "authentication_error", "invalid_table", "invalid_column",
      "permission_denied", "syntax_error", "constraint_violation", "timeout",
      "validation_error", "unknown_error">>

\* rule i of the classifier matches the error
RuleMatches(i, error) ==
    LET text == ToLowerCase(error.message)
        code == error.code
    IN  CASE i = 1 -> code \in {"ECONNREFUSED", "ENOTFOUND", "ETIMEDOUT"}
          [] i = 2 -> code = "28P01" \/ Includes(text, "authentication")
                        \/ Includes(text, "password")
          [] i = 3 -> code = "42P01"
                        \/ (Includes(text, "does not exist") /\ Includes(text, "relation"))
          [] i = 4 -> code = "42703"
                        \/ (Includes(text, "does not exist") /\ Includes(text, "column"))
          [] i = 5 -> code = "42501" \/ Includes(text, "permission denied")
          [] i = 6 -> StartsWith(code, "42") \/ Includes(text, "syntax error")
          [] i = 7 -> StartsWith(code, "23")
          [] i = 8 -> Includes(text, "timeout") \/ Includes(text, "timed out")
          [] i = 9 -> Includes(text, "invalid") \/ Includes(text, "validation")
          [] i = 10 -> TRUE

MatchingRules(error) == {i \in 1..10 : RuleMatches(i, error)}

FirstMatch(error) ==
    Categories[CHOOSE i \in MatchingRules(error) : \A j \in MatchingRules(error) : i <= j]

\* C11: for every driver code and message text, categorizeError returns the
\* category of the first rule that matches, in the order connection_error,
\* authentication_error, invalid_table, invalid_column, permission_denied,
\* syntax_error, constraint_violation, timeout, validation_error, and
\* unknown_error when none does; the result is always one of the ten.
C11_FirstMatchingRuleWins ==
    fn = "categorizeError" =>
        /\ ret = FirstMatch(arg.error)
        /\ \E i \in 1..10 : ret = Categories[i]

\* an error that several rules of different categories match
C11_Witness ==
    /\ fn = "categorizeError"
    /\ arg.error.code = "42501"
    /\ {2, 5, 6, 8} \subseteq MatchingRules(arg.error)
    /\ ret = "authentication_error"

-----------------------------------------------------------------------------
(* Driver errors for a relation that does not exist                        *)

\* the database call of invocation p was rejected with this error
DbFailedWith(p, error) ==
    /\ Len(replies[p]) = 2
    /\ ~replies[p][2].ok
    /\ replies[p][2].error = error

\* the envelope reports an undefined table and names it in the suggestion
ReportsMissingTable(envelope, name) ==
    /\ envelope.success = FALSE
    /\ envelope.errorType = "invalid_table"
    /\ "suggestion" \in DOMAIN envelope
    /\ Includes(envelope.suggestion, name)

\* the classifier's authentication rule matches a message naming the relation
NamesCredential(name) ==
    \/ Includes(ToLowerCase(name), "password")
    \/ Includes(ToLowerCase(name), "authentication")

-----------------------------------------------------------------------------
(* The validators                                                          *)

\* the text has one of the fragments somewhere in it
ContainsAny(text, fragments) ==
    \E f \in fragments : \E i \in 1..Len(text) : Slice(text, i, i + Len(f) - 1) = f

\* the identifier grammar [A-Za-z_][A-Za-z0-9_]*
InGrammar(text) ==
    LET Initial(c) == ContainsAny(UpperAlpha \o LowerAlpha \o "_", {c})
        Later(c) == ContainsAny(UpperAlpha \o LowerAlpha \o Digits \o "_", {c})
    IN  /\ Len(text) > 0
        /\ Initial(CharAt(text, 1))
        /\ \A i \in 2..Len(text) : Later(CharAt(text, i))

\* the text is empty or made of whitespace only
OnlyWhitespace(text) == \A i \in 1..Len(text) : CharAt(text, i) \in {" ", "\t", "\n", "\r"}

\* C13: validateTableName returns valid:false for a text containing `;`,
\* `--` or `/*`; validateTableName and validateColumnName return valid:true
\* for a text matching [A-Za-z_][A-Za-z0-9_]*; validateColumnName returns
\* valid:true for the literal `*`; both return valid:false for an empty or
\* whitespace-only text.
C13_IdentifierValidators ==
    /\ fn = "validateTableName" =>
          /\ ContainsAny(arg.text, {";", "--", "/*"}) => ~ret.valid
          /\ InGrammar(arg.text) => ret.valid
          /\ OnlyWhitespace(arg.text) => ~ret.valid
    /\ fn = "validateColumnName" =>
          /\ InGrammar(arg.text) => ret.valid
          /\ arg.text = "*" => ret.valid
          /\ OnlyWhitespace(arg.text) => ~ret.valid

\* a name in the grammar around a comment marker is turned away
C13_Witness ==
    /\ fn = "validateTableName"
    /\ arg.text = "a/*"
    /\ ~ret.valid
    /\ InGrammar("a")

\* the two characters are the same letter in either case, or the same character
SameIgnoringCase(c, d) ==
    \/ c = d
    \/ \E i \in 1..26 : {c, d} = {CharAt(UpperAlpha, i), CharAt(LowerAlpha, i)}

\* the text has the word somewhere in it, in any letter case
ContainsIgnoringCase(text, word) ==
    \E i \in 1..(Len(text) - Len(word) + 1) :
        \A k \in 1..Len(word) : SameIgnoringCase(CharAt(text, i + k - 1), CharAt(word, k))

Semicolons(text) == {i \in 1..Len(text) : CharAt(text, i) = ";"}

\* only whitespace follows place i of the text
OnlyWhitespaceAfter(text, i) == OnlyWhitespace(Slice(text, i + 1, Len(text)))

\* C15 as stated: validateSqlQuery returns valid:false for every text that
\* contains more than one `;`, or exactly one `;` that is not the final
\* character of the text.
C15_SemicolonNotFinalRejected ==
    (/\ fn = "validateSqlQuery"
     /\ arg.text # Undefined
     /\ \/ Cardinality(Semicolons(arg.text)) > 1
        \/ /\ Cardinality(Semicolons(arg.text)) = 1
           /\ Semicolons(arg.text) # {Len(arg.text)})
    => ~ret.valid

\* C15 amended: validateSqlQuery returns valid:false for every text that
\* contains more than one `;`, or exactly one `;` that is followed by
\* anything but whitespace.
C15_SemicolonBeforeTextRejected ==
    (/\ fn = "validateSqlQuery"
     /\ arg.text # Undefined
     /\ \/ Cardinality(Semicolons(arg.text)) > 1
        \/ /\ Cardinality(Semicolons(arg.text)) = 1
           /\ \E i \in Semicolons(arg.text) : ~OnlyWhitespaceAfter(arg.text, i))
    => ~ret.valid

\* an allowed statement followed by a second one after its only `;`
C15_Witness ==
    /\ fn = "validateSqlQuery"
    /\ arg.text = "select a from t; select 2"
    /\ ret = Invalid(<<"Multiple SQL statements in one query are not allowed">>)

-----------------------------------------------------------------------------
(* Concurrent invocations                                                  *)

\* everything invocation p holds
Local(p) ==
    <<pc[p], op[p], params[p], faulty[p], handle[p], dbCalls[p], replies[p], output[p]>>

\* how execute() ends when it runs alone on these parameters and is given
\* these answers by the credentials store and the database
Alone(operation, in, bad, answers) ==
    LET started == OnStart(operation, in, bad)
    IN  IF started.pc # "acquire" THEN started
        ELSE LET held == OnHandle(operation, in, bad, answers[1])
             IN  IF held.pc # "query" THEN held
                 ELSE OnDbResult(operation, in, bad, answers[2])

ReturnsAsAlone ==
    \A p \in procs :
        Done(p) => [pc |-> pc[p], output |-> output[p]]
                      = Alone(op[p], params[p], faulty[p], replies[p])

\* a step of one invocation leaves everything the other holds as it was
StepsApart ==
    \A p, q \in procs : (p # q /\ Local(p)' # Local(p)) => Local(q)' = Local(q)

\* C16: for any interleaving of two invocations, of the same or of different
\* operations, each ends with the envelope it would return if it ran alone
\* with the same parameters and the same database responses, and no step
\* of one invocation touches what the other holds.
C16_InvocationsIndependent == []ReturnsAsAlone /\ [][StepsApart]_vars

\* an Update and an ExecuteRawSql on different tables, both answered by the
\* database while the other was in progress
C16_Witness ==
    /\ op["p1"] = "update" /\ op["p2"] = "executeQuery"
    /\ pc["p1"] = "returned" /\ pc["p2"] = "returned"
    /\ Len(replies["p1"]) = 2 /\ Len(replies["p2"]) = 2
    /\ output["p1"][1].success /\ ~output["p2"][1].success

\* 1 when the check is violated, else 0
Count(violated) == IF violated THEN 1 ELSE 0

\* the checks of validateTableName the text violates
TableNameViolations(text) ==
    IF OnlyWhitespace(text) THEN 1
    ELSE Count(ContainsAny(text, {";", "--", "/*"})) + Count(~InGrammar(text))

\* the checks of validateSqlQuery the text violates
SqlQueryViolations(text) ==
    IF OnlyWhitespace(text) THEN 1
    ELSE Count(FirstWord(ToUpperCase(Trim(text)))
                  \notin {"SELECT", "INSERT", "UPDATE", "DELETE", "WITH"})
         + Cardinality({word \in {"DROP TABLE", "DROP DATABASE", "TRUNCATE", "ALTER TABLE",
                                  "CREATE TABLE", "CREATE DATABASE", "GRANT", "REVOKE"} :
                           ContainsIgnoringCase(text, word)})
         + Count(\/ Cardinality(Semicolons(text)) > 1
                 \/ \E i \in Semicolons(text) : ~OnlyWhitespaceAfter(text, i))

\* C17: every validator accumulates every violation it can find: for an
\* input that violates several of a validator's checks at once, the errors
\* list it returns has one entry per violated check.
C17_EveryViolationReported ==
    /\ (fn = "validateTableName" /\ arg.text # Undefined) =>
          Len(ret.errors) = TableNameViolations(arg.text)
    /\ (fn = "validateSqlQuery" /\ arg.text # Undefined) =>
          Len(ret.errors) = SqlQueryViolations(arg.text)

-----------------------------------------------------------------------------
(* One database call per validated invocation                              *)

\* every parameter was read and every local check let the invocation through
PassedValidation(p) ==
    /\ Decoded(p)
    /\ Validate(op[p], params[p]).kind = "pass"
    /\ Prepare(op[p], params[p]).kind = "pass"

\* the invocation asked for a transaction boundary
WantsTransaction(p) ==
    op[p] = "executeQuery" /\ Param(params[p], "queryMode", "single") = "transaction"

\* one call was issued, inside a transaction boundary exactly when asked for
IssuedOneCall(p) ==
    /\ Len(dbCalls[p]) = 1
    /\ dbCalls[p][1].tx = WantsTransaction(p)

SuccessNeedsCall(p) ==
    (pc[p] = "returned" /\ output[p][1].success) => Len(dbCalls[p]) = 1

\* C18 as stated: an invocation that passes all of its validation issues
\* exactly one database call before it returns its envelope (inside one
\* transaction boundary for ExecuteRawSql in `transaction` mode, directly
\* otherwise), and no success envelope is returned without a database call.
C18_OneCallWheneverValidated ==
    \A p \in procs :
        /\ (pc[p] = "returned" /\ PassedValidation(p)) => IssuedOneCall(p)
        /\ SuccessNeedsCall(p)

\* C18 amended: the same, for an invocation that passes all of its
\* validation and is given the database handle.
C18_OneCallOnceHandleHeld ==
    \A p \in procs :
        /\ (pc[p] = "returned" /\ PassedValidation(p) /\ handle[p]) => IssuedOneCall(p)
        /\ SuccessNeedsCall(p)

\* a write through ExecuteRawSql in `transaction` mode that succeeded
C18_Witness ==
    \E p \in procs :
        /\ pc[p] = "returned"
        /\ PassedValidation(p)
        /\ WantsTransaction(p)
        /\ handle[p]
        /\ dbCalls[p] = <<DbCall("result", "UPDATE users SET a = $1", <<"v1">>, TRUE)>>
        /\ output[p][1].success

-----------------------------------------------------------------------------
(* C19                                                                     *)

WhereIsRequired ==
    "WHERE conditions are required for UPDATE operations. To update all rows, explicitly provide \"1=1\" as the condition."

\* an Update whose parameters were all read and whose WHERE fragment is
\* empty, missing or only whitespace
UpdateWithoutWhere(p) ==
    /\ op[p] = "update"
    /\ Decoded(p)
    /\ IsBlank(WhereOf(p))

ReportsWhereIsRequired(p) ==
    /\ ReturnedError(p)
    /\ output[p][1].error = WhereIsRequired

\* C19 as stated: every Update invocation with an empty WHERE fragment
\* returns the WHERE-is-required error, whether or not its table name would
\* pass validateTableName, and reports no validator result instead of it.
C19_BlankWhereReportedFirst ==
    \A p \in procs :
        (UpdateWithoutWhere(p) /\ Done(p)) => ReportsWhereIsRequired(p)

\* C19 amended: every Update invocation with an empty WHERE fragment whose
\* table name passes validateTableName returns the WHERE-is-required error,
\* and neither validateWhereClause nor a check of the values is reported
\* instead of it.
C19_BlankWhereReportedAfterTableName ==
    \A p \in procs :
        (/\ UpdateWithoutWhere(p)
         /\ validateTableName(params[p].table).valid
         /\ pc[p] # "start") => ReportsWhereIsRequired(p)

\* an Update of a valid table with a blank WHERE fragment and values that
\* are not valid JSON has returned the WHERE-is-required error
C19_Witness ==
    \E p \in procs :
        /\ UpdateWithoutWhere(p)
        /\ validateTableName(params[p].table).valid
        /\ params[p].values.t = "malformed"
        /\ ReportsWhereIsRequired(p)

-----------------------------------------------------------------------------
(* C20                                                                     *)

\* the keys of the first row, none when there is no row
FirstRowKeys(data) ==
    IF data = <<>> THEN <<>> ELSE [i \in 1..Len(data[1]) |-> data[1][i][1]]

CapSupplied(maxRows) == maxRows # None

CapReached(data, maxRows) == CapSupplied(maxRows) /\ Len(data) >= maxRows[1]

C20_SelectReportsCapReached ==
    \A p \in procs :
        (/\ op[p] = "select"
         /\ pc[p] = "returned"
         /\ output[p][1].success)
            => /\ output[p][1].rowCount = Len(output[p][1].data)
               /\ output[p][1].truncated
                    <=> output[p][1].rowCount >= Param(params[p], "limit", 100)

-----------------------------------------------------------------------------
(* C21                                                                     *)

LimitOf(p) == Param(params[p], "limit", 100)

\* the clauses expected after the FROM target, in their order
WhereClauseOf(p) ==
    LET fragment == Param(params[p], "whereConditions", "")
    IN  IF OnlyWhitespace(fragment) THEN "" ELSE " WHERE " \o fragment

OrderByClauseOf(p) ==
    LET column == Param(params[p], "sortBy", "")
    IN  IF OnlyWhitespace(column) THEN ""
        ELSE " ORDER BY \"" \o column \o "\" " \o Param(params[p], "sortDirection", "ASC")

LimitClauseOf(p) == " LIMIT " \o ToString(LimitOf(p))

ClausesOf(p) == WhereClauseOf(p) \o OrderByClauseOf(p) \o LimitClauseOf(p)

\* the statement is the FROM target followed by exactly these clauses
EndsWithClauses(p, query) ==
    /\ EndsWith(query, ClausesOf(p))
    /\ EndsWith(SubSeq(query, 1, Len(query) - Len(ClausesOf(p))),
                " FROM \"" \o params[p].schema \o "\".\"" \o params[p].table \o "\"")

\* C21: every statement Select executes ends with a LIMIT clause carrying
\* the validated limit (100 when none is supplied), which is at least 1; it
\* has a WHERE clause exactly when the WHERE fragment is non-blank and an
\* ORDER BY clause exactly when the sort column is non-blank, in the order
\* WHERE, ORDER BY, LIMIT.
C21_SelectClauses ==
    \A p \in procs :
        op[p] = "select" =>
            \A i \in 1..Len(dbCalls[p]) :
                /\ LimitOf(p) >= 1
                /\ EndsWithClauses(p, dbCalls[p][i].query)

\* a Select with a WHERE fragment, a sort column and a limit has executed
\* its statement, and so has one with blank ones and no limit
C21_Witness ==
    \E p \in procs :
        /\ op[p] = "select"
        /\ Len(dbCalls[p]) = 1
        /\ \/ dbCalls[p][1].query =
                "SELECT * FROM \"public\".\"users\" WHERE id = 1 ORDER BY \"id\" DESC LIMIT 2"
           \/ /\ dbCalls[p][1].query = "SELECT * FROM \"public\".\"users\" LIMIT 100"
              /\ Param(params[p], "whereConditions", "") = " "
              /\ Param(params[p], "sortBy", "") = " "

-----------------------------------------------------------------------------
(* C22                                                                     *)

SuccessfulDelete(p) ==
    /\ op[p] = "delete"
    /\ pc[p] = "returned"
    /\ output[p][1].success

\* what the database answered to the call of the invocation
DbAnswer(p) == replies[p][Len(replies[p])]

\* the row count the database reported, 0 when it reported none
ReportedCount(p) ==
    IF DbAnswer(p).rowCount = <<>> THEN 0 ELSE DbAnswer(p).rowCount[1]

\* C22: a successful Delete reports affectedRows = -1 exactly when its mode
\* is truncate or drop; in delete mode affectedRows is the row count the
\* database reported (0 when it reported none) and is never negative.
C22_DeleteAffectedRows ==
    \A p \in procs :
        SuccessfulDelete(p) =>
            /\ output[p][1].affectedRows = -1 <=> params[p].mode \in {"truncate", "drop"}
            /\ params[p].mode = "delete" =>
                  /\ output[p][1].affectedRows = ReportedCount(p)
                  /\ output[p][1].affectedRows >= 0

\* a Delete in delete mode whose database answer carried no row count
C22_Witness ==
    \E p \in procs :
        /\ SuccessfulDelete(p)
        /\ params[p].mode = "delete"
        /\ DbAnswer(p).rowCount = <<>>
        /\ output[p][1].affectedRows = 0

-----------------------------------------------------------------------------
(* C23                                                                     *)

\* the text, after its leading whitespace, begins with the word in any
\* letter case
BeginsWithWord(text, word) ==
    \E k \in 1..Len(text) :
        /\ OnlyWhitespace(SubSeq(text, 1, k - 1))
        /\ ~OnlyWhitespace(SubSeq(text, k, k))
        /\ k + Len(word) - 1 <= Len(text)
        /\ \A i \in 1..Len(word) : SameIgnoringCase(CharAt(text, k + i - 1), CharAt(word, i))

ReadsRows(text) == BeginsWithWord(text, "SELECT") \/ BeginsWithWord(text, "WITH")

ExecutionModes == {"single", "transaction", "independently"}

\* C23: in each of the three execution modes, ExecuteRawSql issues the
\* rows-returning call exactly when the trimmed SQL text starts, in any
\* letter case, with SELECT or WITH, and the count-returning call for every
\* other text that passed validateSqlQuery; on success it returns a
\* query-result envelope in the first case and a modification-result
\* envelope in the second.
C23_ReadOrWriteByPrefix ==
    \A p \in procs :
        op[p] = "executeQuery" =>
            /\ \A i \in 1..Len(dbCalls[p]) :
                  /\ Param(params[p], "queryMode", "single") \in ExecutionModes
                  /\ dbCalls[p][i].method =
                        IF ReadsRows(params[p].query) THEN "any" ELSE "result"
            /\ (pc[p] = "returned" /\ output[p][1].success) =>
                  /\ QueryShape(output[p][1]) <=> ReadsRows(params[p].query)
                  /\ ModificationShape(output[p][1]) <=> ~ReadsRows(params[p].query)
                  /\ QueryShape(output[p][1]) =>
                        {"data", "columns"} \subseteq DOMAIN output[p][1]

\* a lower-case WITH statement run in a transaction returned rows
C23_Witness ==
    \E p \in procs :
        /\ op[p] = "executeQuery"
        /\ params[p].query = "with t as (select 1) select * from t;"
        /\ Param(params[p], "queryMode", "single") = "transaction"
        /\ pc[p] = "returned"
        /\ Len(dbCalls[p]) = 1
        /\ dbCalls[p][1].method = "any"
        /\ QueryShape(output[p][1])

-----------------------------------------------------------------------------
(* C24                                                                     *)

\* returnData as the tool reads it: on by default for Insert, off for Update
ReturnDataOf(p) == Param(params[p], "returnData", op[p] = "insert")

SkipOnConflictOf(p) == Param(params[p], "skipOnConflict", FALSE)

\* the statement of an Insert is its VALUES tuples followed by exactly the
\* clauses asked for, ON CONFLICT DO NOTHING first
InsertTail(p, query) ==
    LET tail == (IF SkipOnConflictOf(p) THEN " ON CONFLICT DO NOTHING" ELSE "")
                \o (IF ReturnDataOf(p) THEN " RETURNING *" ELSE "")
    IN  /\ EndsWith(query, tail)
        /\ EndsWith(SubSeq(query, 1, Len(query) - Len(tail)), ")")

SuccessfulWrite(p) ==
    /\ op[p] \in {"insert", "update"}
    /\ pc[p] = "returned"
    /\ output[p][1].success

\* C24: for every successful Insert or Update, when returnData is true the
\* statement ends with RETURNING *, the envelope's data is the list of rows
\* the database returned and affectedRows is its length; when returnData is
\* false the envelope has no data and affectedRows is the affected-row count
\* of the database.  Insert appends ON CONFLICT DO NOTHING exactly when
\* skipOnConflict is true, before RETURNING *.
C24_ReturnDataAndConflictClause ==
    \A p \in procs :
        /\ SuccessfulWrite(p) =>
              IF ReturnDataOf(p)
              THEN /\ EndsWith(dbCalls[p][1].query, " RETURNING *")
                   /\ "data" \in DOMAIN output[p][1]
                   /\ output[p][1].data = DbAnswer(p).rows
                   /\ output[p][1].affectedRows = Len(output[p][1].data)
              ELSE /\ "data" \notin DOMAIN output[p][1]
                   /\ output[p][1].affectedRows = ReportedCount(p)
        /\ op[p] = "insert" =>
              \A i \in 1..Len(dbCalls[p]) : InsertTail(p, dbCalls[p][i].query)

\* an Insert with both clauses has returned the rows of the database
C24_Witness ==
    \E p \in procs :
        /\ SuccessfulWrite(p)
        /\ op[p] = "insert"
        /\ SkipOnConflictOf(p)
        /\ ReturnDataOf(p)
        /\ EndsWith(dbCalls[p][1].query, ") ON CONFLICT DO NOTHING RETURNING *")
        /\ Len(output[p][1].data) = MaxRows

-----------------------------------------------------------------------------
(* C25                                                                     *)

Mentions(error, words) == \E w \in words : ContainsIgnoringCase(error.message, w)

MentionsAll(error, words) == \A w \in words : ContainsIgnoringCase(error.message, w)

\* the message alone satisfies a rule that precedes invalid_table,
\* invalid_column, permission_denied, constraint_violation
AuthenticationWords(error) == Mentions(error, {"authentication", "password"})

MissingRelationWords(error) == MentionsAll(error, {"does not exist", "relation"})

MissingColumnWords(error) == MentionsAll(error, {"does not exist", "column"})

EarlierWordsThanConstraint(error) ==
    \/ AuthenticationWords(error)
    \/ MissingRelationWords(error)
    \/ MissingColumnWords(error)
    \/ Mentions(error, {"permission denied", "syntax error"})

\* C25 as stated: whatever its message says, an error with code 42P01 is
\* categorized invalid_table, 42703 invalid_column, 42501 permission_denied,
\* and any code beginning with 23 constraint_violation.
C25_CodeNeverOverridden ==
    fn = "categorizeError" =>
        /\ arg.error.code = "42P01" => ret = "invalid_table"
        /\ arg.error.code = "42703" => ret = "invalid_column"
        /\ arg.error.code = "42501" => ret = "permission_denied"
        /\ StartsWith(arg.error.code, "23") => ret = "constraint_violation"

\* C25 amended: the category of the code is returned unless the message
\* satisfies a rule that comes earlier in the precedence order: 42P01 gives
\* invalid_table unless the message mentions authentication or password;
\* 42703 gives invalid_column unless it also does not mention a relation
\* that does not exist; 42501 gives permission_denied unless it also does
\* not mention a column that does not exist; a code beginning with 23 gives
\* constraint_violation unless it also mentions neither "permission denied"
\* nor "syntax error".
C25_CodeOverriddenOnlyByEarlierRule ==
    fn = "categorizeError" =>
        LET error == arg.error
        IN  /\ (error.code = "42P01" /\ ~AuthenticationWords(error))
                  => ret = "invalid_table"
            /\ (error.code = "42703" /\ ~AuthenticationWords(error)
                    /\ ~MissingRelationWords(error))
                  => ret = "invalid_column"
            /\ (error.code = "42501" /\ ~AuthenticationWords(error)
                    /\ ~MissingRelationWords(error) /\ ~MissingColumnWords(error))
                  => ret = "permission_denied"
            /\ (StartsWith(error.code, "23") /\ ~EarlierWordsThanConstraint(error))
                  => ret = "constraint_violation"

\* code 23505 with a message about a timeout and an invalid value
C25_Witness ==
    /\ fn = "categorizeError"
    /\ arg.error = [message |-> "Query read timeout: Invalid input value", code |-> "23505"]
    /\ ret = "constraint_violation"

-----------------------------------------------------------------------------
(* C26                                                                     *)

\* the first whitespace-delimited word of the text is the word, in any
\* letter case
FirstWordIs(text, word) ==
    \E k \in 1..Len(text) :
        /\ OnlyWhitespace(SubSeq(text, 1, k - 1))
        /\ ~OnlyWhitespace(SubSeq(text, k, k))
        /\ k + Len(word) - 1 <= Len(text)
        /\ \A i \in 1..Len(word) : SameIgnoringCase(CharAt(text, k + i - 1), CharAt(word, i))
        /\ \/ k + Len(word) - 1 = Len(text)
           \/ OnlyWhitespace(SubSeq(text, k + Len(word), k + Len(word)))

StatementWords == {"SELECT", "INSERT", "UPDATE", "DELETE", "WITH"}

DangerousOperations ==
    {"DROP TABLE", "DROP DATABASE", "TRUNCATE", "ALTER TABLE", "CREATE TABLE",
     "CREATE DATABASE", "GRANT", "REVOKE"}

SafeSqlText(text) ==
    /\ \E word \in StatementWords : FirstWordIs(text, word)
    /\ \A operation \in DangerousOperations : ~ContainsIgnoringCase(text, operation)
    /\ Cardinality(Semicolons(text)) <= 1
    /\ \A i \in Semicolons(text) : OnlyWhitespaceAfter(text, i)

-----------------------------------------------------------------------------
(* C27                                                                     *)

\* the invocation has executed a statement that carries its WHERE fragment
ExecutedWithWhere(p) ==
    /\ op[p] \in {"select", "update", "delete"}
    /\ Len(dbCalls[p]) > 0
    /\ op[p] = "delete" => params[p].mode = "delete"
    /\ ~OnlyWhitespace(WhereOf(p))

\* a `;` of the text is followed by a space
SeparatorThenSpace(text) ==
    \E i \in Semicolons(text) : i < Len(text) /\ CharAt(text, i + 1) = " "

\* C27 as stated: the WHERE fragment that Select, Update or Delete places
\* in an executed statement, having been accepted by validateWhereClause,
\* contains no `;` character.
C27_NoSeparatorInWhere ==
    \A p \in procs :
        ExecutedWithWhere(p) =>
            /\ Semicolons(WhereOf(p)) = {}
            /\ \A i \in 1..Len(dbCalls[p]) : Includes(dbCalls[p][i].query, WhereOf(p))

\* C27 amended: that WHERE fragment contains no `;` followed by a space.
C27_NoSeparatorThenSpaceInWhere ==
    \A p \in procs :
        ExecutedWithWhere(p) =>
            /\ ~SeparatorThenSpace(WhereOf(p))
            /\ \A i \in 1..Len(dbCalls[p]) : Includes(dbCalls[p][i].query, WhereOf(p))

\* an Update has executed a statement whose WHERE fragment ends with `;`
C27_Witness ==
    \E p \in procs :
        /\ ExecutedWithWhere(p)
        /\ op[p] = "update"
        /\ WhereOf(p) = "id = 1;"
        /\ EndsWith(dbCalls[p][1].query, " WHERE id = 1;")

-----------------------------------------------------------------------------
(* C28                                                                     *)

DigitChars == {"0", "1", "2", "3", "4", "5", "6", "7", "8", "9"}

\* where a `$` followed by a digit stands in the text
PlaceholderPositions(text) ==
    {i \in 1..(Len(text) - 1) : CharAt(text, i) = "$" /\ CharAt(text, i + 1) \in DigitChars}

\* where placeholder $n stands in the text
PositionsOf(text, n) ==
    LET name == "$" \o ToString(n)
    IN  {i \in PlaceholderPositions(text) :
            /\ i + Len(name) - 1 <= Len(text)
            /\ SubSeq(text, i, i + Len(name) - 1) = name
            /\ i + Len(name) <= Len(text) => CharAt(text, i + Len(name)) \notin DigitChars}

\* the R tuples of C placeholders, in increasing order
TupleList(R, C) ==
    Join([i \in 1..R |->
            "(" \o Join([j \in 1..C |-> "$" \o ToString((i - 1) * C + j)], ", ") \o ")"],
         ", ")

\* the value the row holds for the key, the absent value when it has none
ValueFor(row, key) ==
    IF \E k \in 1..Len(row) : row[k][1] = key
    THEN row[CHOOSE k \in 1..Len(row) : row[k][1] = key][2]
    ELSE Undefined

PlaceholdersBound(rows, call) ==
    LET R == Len(rows)
        C == Len(rows[1])
    IN  /\ Len(call.values) = R * C
        /\ \A i \in 0..(R - 1), j \in 0..(C - 1) :
              call.values[i * C + j + 1] = ValueFor(rows[i + 1], rows[1][j + 1][1])
        /\ Includes(call.query, " VALUES " \o TupleList(R, C))

EachPlaceholderOnce(rows, call) ==
    LET N == Len(rows) * Len(rows[1])
    IN  /\ Cardinality(PlaceholderPositions(call.query)) = N
        /\ \A n \in 1..N : Cardinality(PositionsOf(call.query, n)) = 1

\* C28: for an Insert of R rows whose first row has C columns, the
\* statement contains exactly the placeholders $1..$(R*C), each once, in R
\* tuples of C in increasing order; the bound array has R*C entries, and
\* placeholder $(i*C + j + 1) is bound to the value row i holds for the j-th
\* column of the first row, the absent value when the row lacks that key; a
\* key only a later row has is bound nowhere.
C28_InsertPlaceholders ==
    \A p \in procs :
        op[p] = "insert" =>
            \A i \in 1..Len(dbCalls[p]) :
                /\ PlaceholdersBound(params[p].data.rows, dbCalls[p][i])
                /\ EachPlaceholderOnce(params[p].data.rows, dbCalls[p][i])

\* the same, for the rows whose first row has only keys in the identifier
\* grammar
C28_InsertPlaceholdersOfPlainKeys ==
    \A p \in procs :
        (/\ op[p] = "insert"
         /\ Len(dbCalls[p]) > 0
         /\ \A k \in 1..Len(params[p].data.rows[1]) :
               InGrammar(params[p].data.rows[1][k][1])) =>
            \A i \in 1..Len(dbCalls[p]) :
                /\ PlaceholdersBound(params[p].data.rows, dbCalls[p][i])
                /\ EachPlaceholderOnce(params[p].data.rows, dbCalls[p][i])

\* two rows of two columns, the second lacking a key and having another
C28_PlainKeysCase ==
    \E p \in procs :
        /\ op[p] = "insert"
        /\ Len(dbCalls[p]) = 1
        /\ params[p].data.rows = <<Row2, RowOdd>>
        /\ dbCalls[p][1].values = <<"v1", "v2", "v3", Undefined>>
        /\ Includes(dbCalls[p][1].query, " VALUES ($1, $2), ($3, $4)")

-----------------------------------------------------------------------------
(* C29                                                                     *)

ColumnsOf(p) == Param(params[p], "columns", "*")

FromTarget(p) == " FROM \"" \o params[p].schema \o "\".\"" \o params[p].table \o "\""

\* where the FROM clause of the statement begins
FromPosition(p, query) ==
    CHOOSE k \in 1..Len(query) :
        /\ StartsWith(SubSeq(query, k, Len(query)), FromTarget(p))
        /\ \A j \in 1..(k - 1) : ~StartsWith(SubSeq(query, j, Len(query)), FromTarget(p))

\* what stands between SELECT and FROM
SelectList(p, query) == SubSeq(query, Len("SELECT ") + 1, FromPosition(p, query) - 1)

\* `*`, or a non-empty comma-separated list of names validateColumnName accepts
ProperSelectList(list) ==
    \/ list = "*"
    \/ /\ ~OnlyWhitespace(list)
       /\ \A i \in 1..Len(Split(list, ",")) :
             validateColumnName(Trim(Split(list, ",")[i])).valid

\* C29: whenever Select reaches the database call, the column list in the
\* statement is `*` or a non-empty comma-separated list whose every element
\* passes validateColumnName; no column specification that validateColumnList
\* accepts, the empty and the whitespace-only one included, gives a
\* statement with an empty select list.
C29_SelectListNeverEmpty ==
    \A p \in procs :
        op[p] = "select" =>
            \A i \in 1..Len(dbCalls[p]) :
                /\ StartsWith(dbCalls[p][i].query, "SELECT ")
                /\ ProperSelectList(SelectList(p, dbCalls[p][i].query))

\* the same, for the column specifications that are not blank
C29_SelectListOfNonBlankColumns ==
    \A p \in procs :
        (op[p] = "select" /\ ~OnlyWhitespace(ColumnsOf(p))) =>
            \A i \in 1..Len(dbCalls[p]) :
                /\ StartsWith(dbCalls[p][i].query, "SELECT ")
                /\ ProperSelectList(SelectList(p, dbCalls[p][i].query))

\* a Select of two named columns has executed its statement
C29_NonBlankCase ==
    \E p \in procs :
        /\ op[p] = "select"
        /\ Len(dbCalls[p]) = 1
        /\ SelectList(p, dbCalls[p][1].query) = "id, name"

-----------------------------------------------------------------------------
(* C30                                                                     *)

\* the invocation has come to `await this.getCredentials`
ReachedAcquisition(p) ==
    \/ pc[p] \in {"acquire", "query"}
    \/ replies[p] # <<>>
    \/ handle[p]

\* the first row of an Insert has no key
ZeroKeyInsert(p) ==
    /\ op[p] = "insert"
    /\ params[p].data.t \in {"array", "object"}
    /\ params[p].data.rows # <<>>
    /\ params[p].data.rows[1] = <<>>

\* C30: in every operation the credentials are fetched and the handle is
\* configured only after all local validation checks of the invocation have
\* passed: an invocation with a locally detected validation failure, the
\* Insert whose first row has no key included, never reaches the
\* acquisition of the credentials and the handle.
C30_AcquisitionOnlyAfterValidation ==
    \A p \in procs :
        (Decoded(p) /\ ValidationFails(p)) => ~ReachedAcquisition(p)

\* the same, for every validation failure other than the first row of an
\* Insert having no key
C30_AcquisitionAfterEarlyChecks ==
    \A p \in procs :
        (/\ Decoded(p)
         /\ ValidationFails(p)
         /\ ZeroKeyInsert(p) => ~validateTableName(params[p].table).valid)
            => ~ReachedAcquisition(p)

\* an Update whose values have no key was turned away before the handle
C30_EarlyCheckCase ==
    \E p \in procs :
        /\ Decoded(p)
        /\ op[p] = "update"
        /\ validateTableName(params[p].table).valid
        /\ ~IsBlank(WhereOf(p))
        /\ validateWhereClause(WhereOf(p)).valid
        /\ params[p].values.rows = <<EmptyRow>>
        /\ ReturnedError(p)
        /\ ~ReachedAcquisition(p)

====
